---- MODULE Spec2Model ----
(***************************************************************************)
(* Model of the NES emulation core of src/nesticlehdrv0-.py: the 6502 CPU  *)
(* interpreter (class CPU), the per-dot PPU (class PPU), the controllers   *)
(* (class Controller) and the frame loop of class NES.                     *)
(*                                                                         *)
(* Memories are kept sparse: a bytearray is a function from the addresses  *)
(* that hold a non-default byte; Get supplies the default.  Python ints    *)
(* are unbounded, so registers carry exactly the masks the code applies.   *)
(* The colour contents of the pygame framebuffer are not part of the       *)
(* state; the model counts the set_at calls of step_ppu instead.           *)
(***************************************************************************)
EXTENDS Integers, Sequences, FiniteSets, TLC

VARIABLES cpu, ppu, pads, rom, nes, obs

vars == <<cpu, ppu, pads, rom, nes, obs>>

(***************************** bit arithmetic ******************************)
Bit(v, k) == (v \div (2^k)) % 2

\* a & b for non-negative a, b: the low byte bit by bit, then the bytes above
RECURSIVE BitAnd(_, _)
BitAnd(a, b) ==
    IF a = 0 \/ b = 0 THEN 0
    ELSE ((((a % 2) * (b % 2)) + 2 * (((a \div 2) % 2) * ((b \div 2) % 2)))
          + (4 * (((a \div 4) % 2) * ((b \div 4) % 2)) + 8 * (((a \div 8) % 2) * ((b \div 8) % 2))))
         + ((16 * (((a \div 16) % 2) * ((b \div 16) % 2)) + 32 * (((a \div 32) % 2) * ((b \div 32) % 2)))
            + (64 * (((a \div 64) % 2) * ((b \div 64) % 2)) + 128 * (((a \div 128) % 2) * ((b \div 128) % 2))))
         + 256 * BitAnd(a \div 256, b \div 256)

\* a | b and a ^ b for non-negative a, b
BitOr(a, b) == (a + b) - BitAnd(a, b)
BitXor(a, b) == (a + b) - 2 * BitAnd(a, b)

\* x & ~m for non-negative x
BitClear(x, m) == x - BitAnd(x, m)

\* sparse bytearray access
Get(mem, a) == IF a \in DOMAIN mem THEN mem[a] ELSE 0
Put(mem, a, v) == (a :> v) @@ mem

(******************************** constants ********************************)
SCREEN_WIDTH == 256
PPU_CYCLES_PER_SCANLINE == 341
SCANLINES_PER_FRAME == 262
VISIBLE_SCANLINES == 240
VBLANK_SCANLINE_START == 241

\* NES_PALETTE: the colour of palette index i is NES_PALETTE[i + 1]
NES_PALETTE ==
  <<<<124, 124, 124>>, <<0, 0, 252>>, <<0, 0, 188>>, <<68, 40, 188>>,
     <<148, 0, 132>>, <<168, 0, 32>>, <<168, 16, 0>>, <<136, 20, 0>>,
     <<80, 48, 0>>, <<0, 120, 0>>, <<0, 104, 0>>, <<0, 88, 0>>,
     <<0, 64, 88>>, <<0, 0, 0>>, <<0, 0, 0>>, <<0, 0, 0>>,
     <<188, 188, 188>>, <<0, 120, 248>>, <<0, 88, 248>>, <<104, 68, 252>>,
     <<216, 0, 204>>, <<228, 0, 88>>, <<248, 56, 0>>, <<228, 92, 16>>,
     <<172, 124, 0>>, <<0, 184, 0>>, <<0, 168, 0>>, <<0, 168, 68>>,
     <<0, 136, 136>>, <<0, 0, 0>>, <<0, 0, 0>>, <<0, 0, 0>>,
     <<248, 248, 248>>, <<60, 188, 252>>, <<104, 136, 252>>, <<152, 120, 248>>,
     <<248, 120, 248>>, <<248, 88, 152>>, <<248, 120, 0>>, <<252, 160, 68>>,
     <<248, 184, 0>>, <<184, 248, 24>>, <<88, 216, 84>>, <<88, 248, 152>>,
     <<0, 232, 216>>, <<120, 120, 120>>, <<0, 0, 0>>, <<0, 0, 0>>,
     <<252, 252, 252>>, <<164, 228, 252>>, <<184, 184, 248>>, <<216, 184, 248>>,
     <<248, 184, 248>>, <<248, 164, 192>>, <<240, 208, 176>>, <<252, 224, 168>>,
     <<248, 216, 120>>, <<216, 248, 120>>, <<184, 248, 184>>, <<184, 248, 216>>,
     <<0, 252, 252>>, <<248, 216, 248>>, <<0, 0, 0>>, <<0, 0, 0>>>>

\* class StatusFlags
FlagC == 1
FlagZ == 2
FlagI == 4
FlagD == 8
FlagB == 16
FlagU == 32
FlagV == 64
FlagN == 128

\* NES.step_frame: target_cycles
target_cycles == 29781

\* an exception leaves the call: no value is returned
Raise(e) == [ok |-> FALSE, error |-> e]

(************************ CPU.__init__: self.opcodes ************************)
\* one row per entry of the dispatch table: <<byte, name, addressing mode,
\* operation, base cycles>>
OpRows ==
    << <<0, "BRK", "IMP", "brk", 7>>, <<1, "ORA", "IZX", "ora_op", 6>>, <<5, "ORA", "ZP0", "ora_op", 3>>,
       <<6, "ASL", "ZP0", "asl_mem", 5>>, <<8, "PHP", "IMP", "php", 3>>, <<9, "ORA", "IMM", "ora_op", 2>>,
       <<10, "ASL", "ACC", "asl_acc", 2>>, <<13, "ORA", "ABS", "ora_op", 4>>, <<14, "ASL", "ABS", "asl_mem", 6>>,
       <<16, "BPL", "REL", "bpl", 2>>, <<17, "ORA", "IZY", "ora_op", 5>>, <<21, "ORA", "ZPX", "ora_op", 4>>,
       <<22, "ASL", "ZPX", "asl_mem", 6>>, <<24, "CLC", "IMP", "clc", 2>>, <<25, "ORA", "ABY", "ora_op", 4>>,
       <<26, "NOP*", "IMP", "nop", 2>>, <<29, "ORA", "ABX", "ora_op", 4>>, <<30, "ASL", "ABX", "asl_mem", 7>>,
       <<32, "JSR", "ABS_JMP", "jsr", 6>>, <<33, "AND", "IZX", "and_op", 6>>, <<36, "BIT", "ZP0", "bit", 3>>,
       <<37, "AND", "ZP0", "and_op", 3>>, <<38, "ROL", "ZP0", "rol_mem", 5>>, <<40, "PLP", "IMP", "plp", 4>>,
       <<41, "AND", "IMM", "and_op", 2>>, <<42, "ROL", "ACC", "rol_acc", 2>>, <<44, "BIT", "ABS", "bit", 4>>,
       <<45, "AND", "ABS", "and_op", 4>>, <<46, "ROL", "ABS", "rol_mem", 6>>, <<48, "BMI", "REL", "bmi", 2>>,
       <<49, "AND", "IZY", "and_op", 5>>, <<53, "AND", "ZPX", "and_op", 4>>, <<54, "ROL", "ZPX", "rol_mem", 6>>,
       <<56, "SEC", "IMP", "sec", 2>>, <<57, "AND", "ABY", "and_op", 4>>, <<58, "NOP*", "IMP", "nop", 2>>,
       <<61, "AND", "ABX", "and_op", 4>>, <<62, "ROL", "ABX", "rol_mem", 7>>, <<64, "RTI", "IMP", "rti", 6>>,
       <<65, "EOR", "IZX", "eor_op", 6>>, <<69, "EOR", "ZP0", "eor_op", 3>>, <<70, "LSR", "ZP0", "lsr_mem", 5>>,
       <<72, "PHA", "IMP", "pha", 3>>, <<73, "EOR", "IMM", "eor_op", 2>>, <<74, "LSR", "ACC", "lsr_acc", 2>>,
       <<76, "JMP", "ABS_JMP", "jmp", 3>>, <<77, "EOR", "ABS", "eor_op", 4>>, <<78, "LSR", "ABS", "lsr_mem", 6>>,
       <<80, "BVC", "REL", "bvc", 2>>, <<81, "EOR", "IZY", "eor_op", 5>>, <<85, "EOR", "ZPX", "eor_op", 4>>,
       <<86, "LSR", "ZPX", "lsr_mem", 6>>, <<88, "CLI", "IMP", "cli", 2>>, <<89, "EOR", "ABY", "eor_op", 4>>,
       <<90, "NOP*", "IMP", "nop", 2>>, <<93, "EOR", "ABX", "eor_op", 4>>, <<94, "LSR", "ABX", "lsr_mem", 7>>,
       <<96, "RTS", "IMP", "rts", 6>>, <<102, "ROR", "ZP0", "ror_mem", 5>>, <<104, "PLA", "IMP", "pla", 4>>,
       <<106, "ROR", "ACC", "ror_acc", 2>>, <<108, "JMP", "IND_JMP", "jmp", 5>>, <<110, "ROR", "ABS", "ror_mem", 6>>,
       <<112, "BVS", "REL", "bvs", 2>>, <<118, "ROR", "ZPX", "ror_mem", 6>>, <<120, "SEI", "IMP", "sei", 2>>,
       <<122, "NOP*", "IMP", "nop", 2>>, <<126, "ROR", "ABX", "ror_mem", 7>>, <<128, "NOP*", "IMM", "nop", 2>>,
       <<129, "STA", "IZX", "sta", 6>>, <<132, "STY", "ZP0", "sty", 3>>, <<133, "STA", "ZP0", "sta", 3>>,
       <<134, "STX", "ZP0", "stx", 3>>, <<136, "DEY", "IMP", "dey", 2>>, <<138, "TXA", "IMP", "txa", 2>>,
       <<140, "STY", "ABS", "sty", 4>>, <<141, "STA", "ABS", "sta", 4>>, <<142, "STX", "ABS", "stx", 4>>,
       <<144, "BCC", "REL", "bcc", 2>>, <<145, "STA", "IZY", "sta", 6>>, <<148, "STY", "ZPX", "sty", 4>>,
       <<149, "STA", "ZPX", "sta", 4>>, <<150, "STX", "ZPY", "stx", 4>>, <<152, "TYA", "IMP", "tya", 2>>,
       <<153, "STA", "ABY", "sta", 5>>, <<154, "TXS", "IMP", "txs", 2>>, <<157, "STA", "ABX", "sta", 5>>,
       <<160, "LDY", "IMM", "ldy", 2>>, <<161, "LDA", "IZX", "lda", 6>>, <<162, "LDX", "IMM", "ldx", 2>>,
       <<164, "LDY", "ZP0", "ldy", 3>>, <<165, "LDA", "ZP0", "lda", 3>>, <<166, "LDX", "ZP0", "ldx", 3>>,
       <<168, "TAY", "IMP", "tay", 2>>, <<169, "LDA", "IMM", "lda", 2>>, <<170, "TAX", "IMP", "tax", 2>>,
       <<172, "LDY", "ABS", "ldy", 4>>, <<173, "LDA", "ABS", "lda", 4>>, <<174, "LDX", "ABS", "ldx", 4>>,
       <<176, "BCS", "REL", "bcs", 2>>, <<177, "LDA", "IZY", "lda", 5>>, <<180, "LDY", "ZPX", "ldy", 4>>,
       <<181, "LDA", "ZPX", "lda", 4>>, <<182, "LDX", "ZPY", "ldx", 4>>, <<184, "CLV", "IMP", "clv", 2>>,
       <<185, "LDA", "ABY", "lda", 4>>, <<186, "TSX", "IMP", "tsx", 2>>, <<188, "LDY", "ABX", "ldy", 4>>,
       <<189, "LDA", "ABX", "lda", 4>>, <<190, "LDX", "ABY", "ldx", 4>>, <<192, "CPY", "IMM", "cpy", 2>>,
       <<193, "CMP", "IZX", "cmp", 6>>, <<196, "CPY", "ZP0", "cpy", 3>>, <<197, "CMP", "ZP0", "cmp", 3>>,
       <<198, "DEC", "ZP0", "dec", 5>>, <<200, "INY", "IMP", "iny", 2>>, <<201, "CMP", "IMM", "cmp", 2>>,
       <<202, "DEX", "IMP", "dex", 2>>, <<204, "CPY", "ABS", "cpy", 4>>, <<205, "CMP", "ABS", "cmp", 4>>,
       <<206, "DEC", "ABS", "dec", 6>>, <<208, "BNE", "REL", "bne", 2>>, <<209, "CMP", "IZY", "cmp", 5>>,
       <<213, "CMP", "ZPX", "cmp", 4>>, <<214, "DEC", "ZPX", "dec", 6>>, <<216, "CLD", "IMP", "cld", 2>>,
       <<217, "CMP", "ABY", "cmp", 4>>, <<218, "NOP*", "IMP", "nop", 2>>, <<221, "CMP", "ABX", "cmp", 4>>,
       <<222, "DEC", "ABX", "dec", 7>>, <<224, "CPX", "IMM", "cpx", 2>>, <<228, "CPX", "ZP0", "cpx", 3>>,
       <<230, "INC", "ZP0", "inc", 5>>, <<232, "INX", "IMP", "inx", 2>>, <<234, "NOP", "IMP", "nop", 2>>,
       <<236, "CPX", "ABS", "cpx", 4>>, <<238, "INC", "ABS", "inc", 6>>, <<240, "BEQ", "REL", "beq", 2>>,
       <<246, "INC", "ZPX", "inc", 6>>, <<248, "SED", "IMP", "sed", 2>>, <<250, "NOP*", "IMP", "nop", 2>>,
       <<254, "INC", "ABX", "inc", 7>> >>

\* self.opcodes: opcode byte -> [name, mode, op, cycles]
opcodes ==
    LET Entry(r) == [name |-> r[2], mode |-> r[3], op |-> r[4], cycles |-> r[5]]
        Table(rows) ==
            [b \in {rows[i][1] : i \in 1..Len(rows)} |->
                Entry(rows[CHOOSE i \in 1..Len(rows) : rows[i][1] = b])]
    IN  Table(OpRows)

(***************************************************************************)
(* The machine is handled as one record s = [cpu, ppu, pads, rom]; every   *)
(* method of the source becomes an operator from machine to machine.  A    *)
(* method that returns a value returns [v |-> value, s |-> machine].       *)
(***************************************************************************)
Ret(val, s) == [v |-> val, s |-> s]

\* TRUE of every machine.  TLC leaves the argument of an operator unevaluated
\* until it is used; a loop tests Evaluated(s) on the machine of one pass
\* before it starts the next, so that the passes are computed one at a time.
Evaluated(s) == s.cpu.pc >= 0

(***************************************************************************)
(* The methods of class CPU that other methods call are reached through    *)
(* one dispatcher, CPU(method, s, a, b), declared here and defined after   *)
(* the methods.  CpuRead, CpuWrite, CpuReset, CpuNmi, CpuIrq and CpuStep   *)
(* are the calls; CPU_read, CPU_write, CPU_reset, CPU_nmi, CPU_irq and     *)
(* CPU_step are the method bodies.                                         *)
(***************************************************************************)
RECURSIVE CPU(_, _, _, _)
CpuRead(s, addr) == CPU("read", s, addr, 0)
CpuWrite(s, addr, value) == CPU("write", s, addr, value)
CpuReset(s) == CPU("reset", s, 0, 0)
CpuNmi(s) == CPU("nmi", s, 0, 0)
CpuIrq(s) == CPU("irq", s, 0, 0)
CpuStep(s) == CPU("step", s, 0, 0)

\* ROM.prg_rom[i]: the image bytes that differ from the fill byte are listed
PrgAt(r, i) == IF i \in DOMAIN r.prg_rom THEN r.prg_rom[i] ELSE r.prg_fill

(************************** class Controller *******************************)
\* Controller.write
ControllerWrite(c, value) ==
    LET strobe == (value % 2) = 1
    IN  [c EXCEPT !.strobe = strobe, !.index = IF strobe THEN 0 ELSE c.index]

\* Controller.update_state: events is a sequence of [type, key], key being the
\* entry of key_map for the key (0..7), keys_pressed the set of keys held
RECURSIVE ApplyEvents(_, _, _)
ApplyEvents(buttons, events, i) ==
    IF i > Len(events) THEN buttons
    ELSE LET ev == events[i]
         IN  ApplyEvents(IF ev.type = "KEYDOWN" THEN [buttons EXCEPT ![ev.key + 1] = TRUE]
                         ELSE IF ev.type = "KEYUP" THEN [buttons EXCEPT ![ev.key + 1] = FALSE]
                         ELSE buttons,
                         events, i + 1)

UpdateState(c, events, keys_pressed) ==
    LET after == ApplyEvents(c.buttons, events, 1)
    IN  [c EXCEPT !.buttons = [k \in 1..8 |-> after[k] \/ (k - 1) \in keys_pressed]]

\* the shift index wraps to 0 after the eighth button
ControllerReadWraps(c) ==
    LET c1 == IF c.strobe THEN [c EXCEPT !.index = 0] ELSE c
    IN  IF c1.index >= 8 THEN [v |-> 1, c |-> c1]
        ELSE [v |-> IF c1.buttons[c1.index + 1] THEN 1 ELSE 0,
              c |-> IF ~c1.strobe THEN [c1 EXCEPT !.index = (c1.index + 1) % 8] ELSE c1]

\* the shift index advances under a high strobe too
ControllerReadShifts(c) ==
    LET c1 == IF c.strobe THEN [c EXCEPT !.index = 0] ELSE c
    IN  IF c1.index >= 8 THEN [v |-> 1, c |-> c1]
        ELSE [v |-> IF c1.buttons[c1.index + 1] THEN 1 ELSE 0,
              c |-> [c1 EXCEPT !.index = c1.index + 1]]

\* Controller.read: [v, c]
ControllerRead(c) ==
    LET c1 == IF c.strobe THEN [c EXCEPT !.index = 0] ELSE c
    IN  IF c1.index >= 8 THEN [v |-> 1, c |-> c1]
        ELSE [v |-> IF c1.buttons[c1.index + 1] THEN 1 ELSE 0,
              c |-> IF ~c1.strobe THEN [c1 EXCEPT !.index = c1.index + 1] ELSE c1]

(***************************** PPU memory **********************************)
\* PPU._get_physical_vram_index
GetPhysicalVramIndex(s, ppu_addr) ==
    IF s.rom.mirroring = 1
    THEN (ppu_addr % 1024) + (IF Bit(ppu_addr, 10) = 1 THEN 1024 ELSE 0)
    ELSE (ppu_addr % 1024) + (IF Bit(ppu_addr, 11) = 1 THEN 1024 ELSE 0)

\* palette index of a palette address (mirrors of the backdrop entries)
PaletteIdx(addr) ==
    LET idx == addr % 32
    IN  IF idx = 16 \/ idx = 20 \/ idx = 24 \/ idx = 28 THEN idx - 16 ELSE idx

\* chr_mem[addr] in PPU.read_ppu_memory raises IndexError (line 428): the
\* pattern address is beyond the bytes the loader sliced out of the file
PpuReadFaults(s, a0) ==
    LET a1 == a0 % 16384
        addr == IF a1 >= 12288 /\ a1 <= 16127 THEN a1 - 4096 ELSE a1
    IN  addr < 8192 /\ addr >= s.rom.chr_len

\* PPU.read_ppu_memory
ReadPpuMemory(s, a0) ==
    LET a1 == a0 % 16384
        addr == IF a1 >= 12288 /\ a1 <= 16127 THEN a1 - 4096 ELSE a1
    IN  IF addr < 8192
        THEN IF addr < s.rom.chr_len THEN Get(s.rom.chr_mem, addr)
             ELSE Raise("IndexError")
        ELSE IF addr < 16128 THEN Get(s.ppu.vram, GetPhysicalVramIndex(s, addr))
        ELSE LET val == Get(s.ppu.palette_ram, PaletteIdx(addr))
             IN  IF Bit(s.ppu.ppumask, 0) = 1 THEN BitAnd(val, 48) ELSE val

\* a pattern-table write is stored whether CHR is RAM or ROM
WritePpuMemoryAnyChr(s, a0, v0) ==
    LET a1 == a0 % 16384
        value == v0 % 256
        addr == IF a1 >= 12288 /\ a1 <= 16127 THEN a1 - 4096 ELSE a1
    IN  IF addr < 8192
        THEN [s EXCEPT !.rom.chr_mem = Put(@, addr, value)]
        ELSE IF addr < 16128
        THEN [s EXCEPT !.ppu.vram = Put(@, GetPhysicalVramIndex(s, addr), value)]
        ELSE [s EXCEPT !.ppu.palette_ram = Put(@, PaletteIdx(addr), value)]

\* PPU.write_ppu_memory
WritePpuMemory(s, a0, v0) ==
    LET a1 == a0 % 16384
        value == v0 % 256
        addr == IF a1 >= 12288 /\ a1 <= 16127 THEN a1 - 4096 ELSE a1
    IN  IF addr < 8192
        THEN IF s.rom.is_chr_ram
             THEN [s EXCEPT !.rom.chr_mem = Put(@, addr, value)]
             ELSE s
        ELSE IF addr < 16128
        THEN [s EXCEPT !.ppu.vram = Put(@, GetPhysicalVramIndex(s, addr), value)]
        ELSE [s EXCEPT !.ppu.palette_ram = Put(@, PaletteIdx(addr), value)]

(*************************** PPU registers *********************************)
\* the write toggle is left as it was
ReadStatusKeepsLatch(s) ==
    LET val == BitOr(BitAnd(s.ppu.ppustatus, 224), BitAnd(s.ppu.data_buffer, 31))
        s1 == [s EXCEPT !.ppu.ppustatus = BitClear(@, 128)]
    IN  Ret(val, IF s1.ppu.scanline = VBLANK_SCANLINE_START /\ s1.ppu.cycle <= 3
                 THEN [s1 EXCEPT !.ppu.nmi_output = FALSE]
                 ELSE s1)

\* the read clears the three flag bits, not bit 7 alone
ReadStatusClearsFlags(s) ==
    LET val == BitOr(BitAnd(s.ppu.ppustatus, 224), BitAnd(s.ppu.data_buffer, 31))
        s1 == [s EXCEPT !.ppu.ppustatus = BitClear(@, 224),
                        !.ppu.addr_latch_w = FALSE]
    IN  Ret(val, IF s1.ppu.scanline = VBLANK_SCANLINE_START /\ s1.ppu.cycle <= 3
                 THEN [s1 EXCEPT !.ppu.nmi_output = FALSE]
                 ELSE s1)

\* PPU.read_register, the PPUSTATUS branch: [v, s]
ReadStatus(s) ==
    LET val == BitOr(BitAnd(s.ppu.ppustatus, 224), BitAnd(s.ppu.data_buffer, 31))
        s1 == [s EXCEPT !.ppu.ppustatus = BitClear(@, 128),
                        !.ppu.addr_latch_w = FALSE]
    IN  Ret(val, IF s1.ppu.scanline = VBLANK_SCANLINE_START /\ s1.ppu.cycle <= 3
                 THEN [s1 EXCEPT !.ppu.nmi_output = FALSE]
                 ELSE s1)

\* the step of v after a $2007 access that ignores ctrl bit 2
VramIncrementByOne(p) == 1

\* PPU.read_register / PPU.write_register: inc = 32 if (ppuctrl & 0x04) else 1
VramIncrement(p) == IF Bit(p.ppuctrl, 2) = 1 THEN 32 ELSE 1

\* a $2006 write whose second half loads v without the low byte
WriteAddrHighOnly(s0, value) ==
    IF ~s0.ppu.addr_latch_w
    THEN [s0 EXCEPT !.ppu.temp_vram_addr_t =
                        BitOr(BitAnd(@, 255), (value % 64) * 256),
                    !.ppu.addr_latch_w = TRUE]
    ELSE LET t1 == BitOr(BitAnd(s0.ppu.temp_vram_addr_t, 65280), value)
         IN  [s0 EXCEPT !.ppu.temp_vram_addr_t = t1,
                        !.ppu.vram_addr_v = BitAnd(t1, 65280),
                        !.ppu.addr_latch_w = FALSE]

\* PPU.write_register, reg_idx == 6 (PPUADDR)
WriteAddr(s0, value) ==
    IF ~s0.ppu.addr_latch_w
    THEN [s0 EXCEPT !.ppu.temp_vram_addr_t =
                        BitOr(BitAnd(@, 255), (value % 64) * 256),
                    !.ppu.addr_latch_w = TRUE]
    ELSE LET t1 == BitOr(BitAnd(s0.ppu.temp_vram_addr_t, 65280), value)
         IN  [s0 EXCEPT !.ppu.temp_vram_addr_t = t1,
                        !.ppu.vram_addr_v = t1,
                        !.ppu.addr_latch_w = FALSE]

\* the PPUCTRL write raising an NMI request on every 0 -> 1 change of bit 7
WriteCtrlAnyEdge(s0, value) ==
    LET p == s0.ppu
        old_nmi == Bit(p.ppuctrl, 7) = 1
        raise == ~old_nmi /\ Bit(value, 7) = 1
    IN  [s0 EXCEPT !.ppu.ppuctrl = value,
                   !.ppu.temp_vram_addr_t =
                       BitOr(BitAnd(@, 62463), (value % 4) * 1024),
                   !.ppu.nmi_output = IF raise THEN TRUE ELSE @]

\* PPU.write_register, reg_idx == 0 (PPUCTRL), after data_buffer is set
WriteCtrl(s0, value) ==
    LET p == s0.ppu
        old_nmi == Bit(p.ppuctrl, 7) = 1
        raise == ~old_nmi /\ Bit(value, 7) = 1 /\ Bit(p.ppustatus, 7) = 1
                 /\ ~p.nmi_occurred_this_frame
    IN  [s0 EXCEPT !.ppu.ppuctrl = value,
                   !.ppu.temp_vram_addr_t =
                       BitOr(BitAnd(@, 62463), (value % 4) * 1024),
                   !.ppu.nmi_output = IF raise THEN TRUE ELSE @]

\* PPU.read_register: [v, s]
ReadRegister(s, reg_idx) ==
    IF reg_idx = 2
    THEN ReadStatus(s)
    ELSE IF reg_idx = 4
    THEN Ret(Get(s.ppu.oam, s.ppu.oamaddr), s)
    ELSE IF reg_idx = 7
    THEN LET v == s.ppu.vram_addr_v
             buffered == s.ppu.data_buffer
             s1 == [s EXCEPT !.ppu.data_buffer = ReadPpuMemory(s, v)]
             pal == Get(s.ppu.palette_ram, PaletteIdx(v))
             val == IF v >= 16128
                    THEN (IF Bit(s.ppu.ppumask, 0) = 1 THEN BitAnd(pal, 48) ELSE pal)
                    ELSE buffered
             inc == VramIncrement(s.ppu)
         IN  Ret(val, [s1 EXCEPT !.ppu.vram_addr_v = (v + inc) % 32768])
    ELSE Ret(0, s)

\* PPU.write_register
WriteRegister(s, reg_idx, value) ==
    LET s0 == [s EXCEPT !.ppu.data_buffer = value]
        p == s0.ppu
    IN  IF reg_idx = 0 THEN WriteCtrl(s0, value)
        ELSE IF reg_idx = 1 THEN [s0 EXCEPT !.ppu.ppumask = value]
        ELSE IF reg_idx = 3 THEN [s0 EXCEPT !.ppu.oamaddr = value]
        ELSE IF reg_idx = 4
        THEN [s0 EXCEPT !.ppu.oam = Put(@, p.oamaddr, value),
                        !.ppu.oamaddr = (p.oamaddr + 1) % 256]
        ELSE IF reg_idx = 5
        THEN IF ~p.addr_latch_w
             THEN [s0 EXCEPT !.ppu.temp_vram_addr_t =
                                 BitOr(BitAnd(@, 65504), value \div 8),
                             !.ppu.fine_x_scroll = value % 8,
                             !.ppu.addr_latch_w = TRUE]
             ELSE LET t1 == BitOr(BitAnd(p.temp_vram_addr_t, 35871),
                                  BitAnd(value, 248) * 4)
                      t2 == BitOr(BitAnd(t1, 62463), (value % 8) * 4096)
                  IN  [s0 EXCEPT !.ppu.temp_vram_addr_t = t2,
                                 !.ppu.addr_latch_w = FALSE]
        ELSE IF reg_idx = 6 THEN WriteAddr(s0, value)
        ELSE IF reg_idx = 7
        THEN LET s1 == WritePpuMemory(s0, p.vram_addr_v, value)
                 inc == VramIncrement(p)
             IN  [s1 EXCEPT !.ppu.vram_addr_v = (p.vram_addr_v + inc) % 32768]
        ELSE s0

(****************************** CPU bus ************************************)
\* a single bank is not repeated at $C000: the index is addr - 0x8000
PrgReadUnmirrored(s, addr) == Ret(PrgAt(s.rom, addr - 32768), s)

\* CPU.read, the branch 0x8000 <= addr <= 0xFFFF: [v, s]
PrgRead(s, addr) ==
    IF s.rom.prg_banks = 1
    THEN Ret(PrgAt(s.rom, (addr - 32768) % 16384), s)
    ELSE Ret(PrgAt(s.rom, addr - 32768), s)

\* CPU.read: [v, s]
CPU_read(s, a0) ==
    LET addr == a0 % 65536
    IN  IF addr < 8192 THEN Ret(Get(s.cpu.ram, addr % 2048), s)
        ELSE IF addr < 16384 THEN ReadRegister(s, addr % 8)
        ELSE IF addr < 16408
        THEN IF addr = 16406
             THEN LET r == ControllerRead(s.pads[1])
                  IN  Ret(r.v, [s EXCEPT !.pads[1] = r.c])
             ELSE IF addr = 16407
             THEN LET r == ControllerRead(s.pads[2])
                  IN  Ret(r.v, [s EXCEPT !.pads[2] = r.c])
             ELSE Ret(0, s)
        ELSE IF addr < 32768 THEN Ret(0, s)
        ELSE PrgRead(s, addr)

\* PPU.oam_dma, the copy loop for the bytes i..j of the page, in order of i:
\* the range is split in two halves, the lower half is copied first
RECURSIVE OamDmaCopy(_, _, _, _)
OamDmaCopy(s, start_addr, i, j) ==
    LET Store(r) == [r.s EXCEPT !.ppu.oam = Put(@, (r.s.ppu.oamaddr + i) % 256, r.v)]
        Upper(mid, s1) == IF Evaluated(s1) THEN OamDmaCopy(s1, start_addr, mid + 1, j) ELSE s1
        Halves(mid) == Upper(mid, OamDmaCopy(s, start_addr, i, mid))
    IN  IF i = j THEN Store(CpuRead(s, start_addr + i)) ELSE Halves((i + j) \div 2)

\* the stall that oam_dma adds to cycles_remaining
OamDmaStall(s) == [s EXCEPT !.cpu.cycles_remaining = @ + 513 + (s.cpu.total_cycles % 2)]

\* oam_dma that stores byte i at oam[i], whatever oamaddr holds
OamDmaFromEntryZero(s, page_addr) ==
    LET Restore(oamaddr, s1) == [s1 EXCEPT !.ppu.oamaddr = oamaddr]
    IN  OamDmaStall(Restore(s.ppu.oamaddr,
                            OamDmaCopy([s EXCEPT !.ppu.oamaddr = 0], page_addr * 256, 0, 255)))

\* PPU.oam_dma
OamDma(s, page_addr) == OamDmaStall(OamDmaCopy(s, page_addr * 256, 0, 255))

\* CPU.write
CPU_write(s, a0, v0) ==
    LET addr == a0 % 65536
        value == v0 % 256
    IN  IF addr < 8192 THEN [s EXCEPT !.cpu.ram = Put(@, addr % 2048, value)]
        ELSE IF addr < 16384 THEN WriteRegister(s, addr % 8, value)
        ELSE IF addr < 16408
        THEN IF addr = 16404 THEN OamDma(s, value)
             ELSE IF addr = 16406
             THEN [s EXCEPT !.pads = [i \in {1, 2} |-> ControllerWrite(@[i], value)]]
             ELSE s
        ELSE s

\* CPU.read_word: [v, s]
ReadWord(s, addr) ==
    LET lo == CpuRead(s, addr)
        hi == CpuRead(lo.s, addr + 1)
    IN  Ret(lo.v + 256 * hi.v, hi.s)

\* CPU.read_word_bug: [v, s]
ReadWordBug(s, addr) ==
    LET lo == CpuRead(s, addr)
        high_addr == (((addr \div 256) % 256) * 256) + ((addr + 1) % 256)
        hi == CpuRead(lo.s, high_addr)
    IN  Ret(256 * hi.v + lo.v, hi.s)

\* CPU.push
Push(s, value) ==
    LET s1 == CpuWrite(s, 256 + s.cpu.sp, value)
    IN  [s1 EXCEPT !.cpu.sp = (s.cpu.sp - 1) % 256]

\* pop without the wrap of the stack pointer: [v, s]
PopUnmasked(s) ==
    LET s1 == [s EXCEPT !.cpu.sp = s.cpu.sp + 1]
    IN  CpuRead(s1, 256 + s1.cpu.sp)

\* CPU.pop: [v, s]
Pop(s) ==
    LET s1 == [s EXCEPT !.cpu.sp = (s.cpu.sp + 1) % 256]
    IN  CpuRead(s1, 256 + s1.cpu.sp)

\* push_word storing the low byte first
PushWordLowFirst(s, value) == Push(Push(s, value % 256), value \div 256)

\* CPU.push_word
PushWord(s, value) == Push(Push(s, value \div 256), value % 256)

\* CPU.pop_word: [v, s]
PopWord(s) ==
    LET lo == Pop(s)
        hi == Pop(lo.s)
    IN  Ret(BitOr(lo.v, hi.v * 256), hi.s)

\* CPU.set_flag
SetFlag(s, flag, value) ==
    [s EXCEPT !.cpu.status = IF value THEN BitOr(@, flag) ELSE BitClear(@, flag)]

\* CPU.get_flag
GetFlag(s, flag) == BitAnd(s.cpu.status, flag) # 0

\* CPU.set_zn_flags
SetZnFlags(s, value) ==
    SetFlag(SetFlag(s, FlagZ, value = 0), FlagN, Bit(value, 7) = 1)

\* reset that loads pc from the NMI vector
CpuResetFromNmiVector(s) ==
    LET Loaded(w) ==
            [w.s EXCEPT !.cpu.pc = w.v, !.cpu.sp = 253,
                        !.cpu.acc = 0, !.cpu.x = 0, !.cpu.y = 0,
                        !.cpu.status = BitOr(FlagU, FlagI),
                        !.cpu.cycles_remaining = 8, !.cpu.total_cycles = 0]
    IN  Loaded(ReadWord(s, 65530))

\* CPU.reset
CPU_reset(s) ==
    LET w == ReadWord(s, 65532)
    IN  [w.s EXCEPT !.cpu.pc = w.v, !.cpu.sp = 253,
                    !.cpu.acc = 0, !.cpu.x = 0, !.cpu.y = 0,
                    !.cpu.status = BitOr(FlagU, FlagI),
                    !.cpu.cycles_remaining = 8, !.cpu.total_cycles = 0]

\* nmi that pushes the status byte as BRK does, with B set
CPU_nmiPushesB(s) ==
    LET s1 == PushWord(s, s.cpu.pc)
        s2 == Push(s1, BitOr(BitOr(s1.cpu.status, FlagB), FlagU))
        s3 == [s2 EXCEPT !.cpu.status = BitOr(@, FlagI)]
        w == ReadWord(s3, 65530)
    IN  [w.s EXCEPT !.cpu.pc = w.v, !.cpu.cycles_remaining = @ + 7]

\* CPU.nmi
CPU_nmi(s) ==
    LET s1 == PushWord(s, s.cpu.pc)
        s2 == Push(s1, BitOr(BitClear(s1.cpu.status, FlagB), FlagU))
        s3 == [s2 EXCEPT !.cpu.status = BitOr(@, FlagI)]
        w == ReadWord(s3, 65530)
    IN  [w.s EXCEPT !.cpu.pc = w.v, !.cpu.cycles_remaining = @ + 7]

\* CPU.irq
CPU_irq(s) ==
    IF BitAnd(s.cpu.status, FlagI) = 0
    THEN LET s1 == PushWord(s, s.cpu.pc)
             s2 == Push(s1, BitOr(BitClear(s1.cpu.status, FlagB), FlagU))
             s3 == [s2 EXCEPT !.cpu.status = BitOr(@, FlagI)]
             w == ReadWord(s3, 65534)
         IN  [w.s EXCEPT !.cpu.pc = w.v, !.cpu.cycles_remaining = @ + 7]
    ELSE s

(************************* CPU addressing modes ****************************)
\* the page (bits 8..15) of an address: addr & 0xFF00
Page(addr) == (addr \div 256) % 256

Mode(s, addr, crossed) == [s |-> s, addr |-> addr, crossed |-> crossed]

\* CPU.IMM .. CPU.IND_JMP: [s, addr, crossed]
AddrMode(mode, s) ==
    LET pc == s.cpu.pc
        s1 == [s EXCEPT !.cpu.pc = pc + 1]
        s2 == [s EXCEPT !.cpu.pc = pc + 2]
    IN  CASE mode = "IMM" -> Mode(s1, pc, FALSE)
          [] mode = "ZP0" -> LET r == CpuRead(s1, pc) IN Mode(r.s, r.v % 256, FALSE)
          [] mode = "ZPX" -> LET r == CpuRead(s1, pc)
                             IN  Mode(r.s, (r.v + s.cpu.x) % 256, FALSE)
          [] mode = "ZPY" -> LET r == CpuRead(s1, pc)
                             IN  Mode(r.s, (r.v + s.cpu.y) % 256, FALSE)
          [] mode = "ABS" -> LET r == ReadWord(s2, pc) IN Mode(r.s, r.v, FALSE)
          [] mode = "ABX" -> LET r == ReadWord(s2, pc)
                                 eff == (r.v + s.cpu.x) % 65536
                             IN  Mode(r.s, eff, Page(r.v) # Page(eff))
          [] mode = "ABY" -> LET r == ReadWord(s2, pc)
                                 eff == (r.v + s.cpu.y) % 65536
                             IN  Mode(r.s, eff, Page(r.v) # Page(eff))
          [] mode = "IZX" -> LET r == CpuRead(s1, pc)
                                 zp == (r.v + s.cpu.x) % 256
                                 w == ReadWordBug(r.s, zp)
                             IN  Mode(w.s, w.v, FALSE)
          [] mode = "IZY" -> LET r == CpuRead(s1, pc)
                                 w == ReadWordBug(r.s, r.v)
                                 eff == (w.v + s.cpu.y) % 65536
                             IN  Mode(w.s, eff, Page(w.v) # Page(eff))
          [] mode = "IMP" -> Mode(s, 0, FALSE)
          [] mode = "REL" -> LET r == CpuRead(s1, pc)
                                 off == IF Bit(r.v, 7) = 1 THEN r.v - 256 ELSE r.v
                             IN  Mode(r.s, (r.s.cpu.pc + off) % 65536, FALSE)
          [] mode = "ACC" -> Mode(s, 0, FALSE)
          [] mode = "ABS_JMP" -> LET r == ReadWord(s2, pc) IN Mode(r.s, r.v, FALSE)
          [] mode = "IND_JMP" -> LET r == ReadWord(s2, pc)
                                     w == ReadWordBug(r.s, r.v)
                                 IN  Mode(w.s, w.v, FALSE)

(***************************** CPU operations ******************************)
\* an operation returns [s |-> machine, add |-> additional cycles]
Op(s, add) == [s |-> s, add |-> add]

\* CPU._fetch_operand_value: [v, s]
FetchOperandValue(s, mode, addr) ==
    IF mode = "ACC" THEN Ret(s.cpu.acc, s) ELSE CpuRead(s, addr)

\* the page-cross penalty term shared by lda, cmp and _logical
Penalty(crossed, mode, modes) == IF crossed /\ mode \in modes THEN 1 ELSE 0

\* a taken branch adds one cycle whatever the page of its target
BranchFlat(s, cond, addr) ==
    IF cond THEN Op([s EXCEPT !.cpu.pc = addr], 1) ELSE Op(s, 0)

\* CPU._branch
Branch(s, cond, addr) ==
    IF cond
    THEN Op([s EXCEPT !.cpu.pc = addr],
            IF Page(s.cpu.pc) # Page(addr) THEN 2 ELSE 1)
    ELSE Op(s, 0)

\* CPU._compare
Compare(s, reg, mem) ==
    SetZnFlags(SetFlag(s, FlagC, reg - mem >= 0), (reg - mem) % 256)

\* CPU._logical, with the lambda of and_op / eor_op / ora_op
Logical(s, op, addr, crossed, mode) ==
    LET r == CpuRead(s, addr)
        res == (CASE op = "and_op" -> BitAnd(r.s.cpu.acc, r.v)
                  [] op = "eor_op" -> BitXor(r.s.cpu.acc, r.v)
                  [] op = "ora_op" -> BitOr(r.s.cpu.acc, r.v)) % 256
    IN  Op(SetZnFlags([r.s EXCEPT !.cpu.acc = res], res),
           Penalty(crossed, mode, {"ABX", "ABY", "IZY"}))

\* CPU._asl, _lsr, _rol, _ror: [v, s]
Shift(s, op, v) ==
    LET c == IF GetFlag(s, FlagC) THEN 1 ELSE 0
    IN  CASE op = "asl" -> Ret((v * 2) % 256, SetFlag(s, FlagC, Bit(v, 7) = 1))
          [] op = "lsr" -> Ret(v \div 2, SetFlag(s, FlagC, Bit(v, 0) = 1))
          [] op = "rol" -> Ret(BitOr(v * 2, c) % 256, SetFlag(s, FlagC, Bit(v, 7) = 1))
          [] op = "ror" -> Ret(BitOr(v \div 2, c * 128) % 256,
                               SetFlag(s, FlagC, Bit(v, 0) = 1))

\* CPU._shift_acc
ShiftAcc(s, op) ==
    LET r == Shift(s, op, s.cpu.acc)
    IN  Op(SetZnFlags([r.s EXCEPT !.cpu.acc = r.v], r.v), 0)

\* CPU._shift_mem
ShiftMem(s, op, addr) ==
    LET m == CpuRead(s, addr)
        r == Shift(m.s, op, m.v)
    IN  Op(SetZnFlags(CpuWrite(r.s, addr, r.v), r.v), 0)

\* the status register takes the byte pulled as it is
PulledStatusAsIs(value) == value

\* the status that plp and rti make of the byte pulled from the stack
PulledStatus(value) == BitOr(BitClear(BitClear(value, FlagB), FlagU), FlagU)

\* CPU.lda .. CPU.sed: the operation named op of the dispatch table
Exec(op, mode, s, addr, crossed) ==
    CASE op = "lda" ->
            LET r == FetchOperandValue(s, mode, addr)
            IN  Op(SetZnFlags([r.s EXCEPT !.cpu.acc = r.v], r.v),
                   Penalty(crossed, mode, {"ABX", "ABY", "IZY"}))
      [] op = "ldx" ->
            LET r == FetchOperandValue(s, mode, addr)
            IN  Op(SetZnFlags([r.s EXCEPT !.cpu.x = r.v], r.v),
                   Penalty(crossed, mode, {"ABY"}))
      [] op = "ldy" ->
            LET r == FetchOperandValue(s, mode, addr)
            IN  Op(SetZnFlags([r.s EXCEPT !.cpu.y = r.v], r.v),
                   Penalty(crossed, mode, {"ABX"}))
      [] op = "sta" -> Op(CpuWrite(s, addr, s.cpu.acc), 0)
      [] op = "stx" -> Op(CpuWrite(s, addr, s.cpu.x), 0)
      [] op = "sty" -> Op(CpuWrite(s, addr, s.cpu.y), 0)
      [] op = "tax" -> Op(SetZnFlags([s EXCEPT !.cpu.x = s.cpu.acc], s.cpu.acc), 0)
      [] op = "tay" -> Op(SetZnFlags([s EXCEPT !.cpu.y = s.cpu.acc], s.cpu.acc), 0)
      [] op = "tsx" -> Op(SetZnFlags([s EXCEPT !.cpu.x = s.cpu.sp], s.cpu.sp), 0)
      [] op = "txa" -> Op(SetZnFlags([s EXCEPT !.cpu.acc = s.cpu.x], s.cpu.x), 0)
      [] op = "txs" -> Op([s EXCEPT !.cpu.sp = s.cpu.x], 0)
      [] op = "tya" -> Op(SetZnFlags([s EXCEPT !.cpu.acc = s.cpu.y], s.cpu.y), 0)
      [] op = "pha" -> Op(Push(s, s.cpu.acc), 0)
      [] op = "pla" -> LET r == Pop(s)
                       IN  Op(SetZnFlags([r.s EXCEPT !.cpu.acc = r.v], r.v), 0)
      [] op = "php" -> Op(Push(s, BitOr(BitOr(s.cpu.status, FlagB), FlagU)), 0)
      [] op = "plp" ->
            LET r == Pop(s)
            IN  Op([r.s EXCEPT !.cpu.status = PulledStatus(r.v)], 0)
      [] op = "bpl" -> Branch(s, ~GetFlag(s, FlagN), addr)
      [] op = "bmi" -> Branch(s, GetFlag(s, FlagN), addr)
      [] op = "bvc" -> Branch(s, ~GetFlag(s, FlagV), addr)
      [] op = "bvs" -> Branch(s, GetFlag(s, FlagV), addr)
      [] op = "bcc" -> Branch(s, ~GetFlag(s, FlagC), addr)
      [] op = "bcs" -> Branch(s, GetFlag(s, FlagC), addr)
      [] op = "bne" -> Branch(s, ~GetFlag(s, FlagZ), addr)
      [] op = "beq" -> Branch(s, GetFlag(s, FlagZ), addr)
      [] op = "bit" ->
            LET r == CpuRead(s, addr)
                s1 == SetFlag(r.s, FlagZ, BitAnd(r.s.cpu.acc, r.v) = 0)
                s2 == SetFlag(s1, FlagN, Bit(r.v, 7) = 1)
            IN  Op(SetFlag(s2, FlagV, Bit(r.v, 6) = 1), 0)
      [] op = "cmp" ->
            LET r == CpuRead(s, addr)
            IN  Op(Compare(r.s, s.cpu.acc, r.v),
                   Penalty(crossed, mode, {"ABX", "ABY", "IZY"}))
      [] op = "cpx" -> LET r == CpuRead(s, addr) IN Op(Compare(r.s, s.cpu.x, r.v), 0)
      [] op = "cpy" -> LET r == CpuRead(s, addr) IN Op(Compare(r.s, s.cpu.y, r.v), 0)
      [] op \in {"and_op", "eor_op", "ora_op"} -> Logical(s, op, addr, crossed, mode)
      [] op = "inc" ->
            LET r == CpuRead(s, addr)
                val == (r.v + 1) % 256
            IN  Op(SetZnFlags(CpuWrite(r.s, addr, val), val), 0)
      [] op = "dec" ->
            LET r == CpuRead(s, addr)
                val == (r.v - 1) % 256
            IN  Op(SetZnFlags(CpuWrite(r.s, addr, val), val), 0)
      [] op = "inx" -> LET val == (s.cpu.x + 1) % 256
                       IN  Op(SetZnFlags([s EXCEPT !.cpu.x = val], val), 0)
      [] op = "dex" -> LET val == (s.cpu.x - 1) % 256
                       IN  Op(SetZnFlags([s EXCEPT !.cpu.x = val], val), 0)
      [] op = "iny" -> LET val == (s.cpu.y + 1) % 256
                       IN  Op(SetZnFlags([s EXCEPT !.cpu.y = val], val), 0)
      [] op = "dey" -> LET val == (s.cpu.y - 1) % 256
                       IN  Op(SetZnFlags([s EXCEPT !.cpu.y = val], val), 0)
      [] op = "asl_acc" -> ShiftAcc(s, "asl")
      [] op = "asl_mem" -> ShiftMem(s, "asl", addr)
      [] op = "lsr_acc" -> ShiftAcc(s, "lsr")
      [] op = "lsr_mem" -> ShiftMem(s, "lsr", addr)
      [] op = "rol_acc" -> ShiftAcc(s, "rol")
      [] op = "rol_mem" -> ShiftMem(s, "rol", addr)
      [] op = "ror_acc" -> ShiftAcc(s, "ror")
      [] op = "ror_mem" -> ShiftMem(s, "ror", addr)
      [] op = "jmp" -> Op([s EXCEPT !.cpu.pc = addr], 0)
      [] op = "jsr" -> Op([PushWord(s, s.cpu.pc - 1) EXCEPT !.cpu.pc = addr], 0)
      [] op = "rts" -> LET r == PopWord(s)
                       IN  Op([r.s EXCEPT !.cpu.pc = (r.v + 1) % 65536], 0)
      [] op = "rti" ->
            LET r == Pop(s)
                s1 == [r.s EXCEPT !.cpu.status = PulledStatus(r.v)]
                w == PopWord(s1)
            IN  Op([w.s EXCEPT !.cpu.pc = w.v], 0)
      [] op = "brk" ->
            LET s1 == [s EXCEPT !.cpu.pc = @ + 1]
                s2 == PushWord(s1, s1.cpu.pc)
                s3 == Push(s2, BitOr(BitOr(s2.cpu.status, FlagB), FlagU))
                s4 == [s3 EXCEPT !.cpu.status = BitOr(@, FlagI)]
                w == ReadWord(s4, 65534)
            IN  Op([w.s EXCEPT !.cpu.pc = w.v], 0)
      [] op = "nop" -> Op(s, 0)
      [] op = "clc" -> Op(SetFlag(s, FlagC, FALSE), 0)
      [] op = "sec" -> Op(SetFlag(s, FlagC, TRUE), 0)
      [] op = "cli" -> Op(SetFlag(s, FlagI, FALSE), 0)
      [] op = "sei" -> Op(SetFlag(s, FlagI, TRUE), 0)
      [] op = "clv" -> Op(SetFlag(s, FlagV, FALSE), 0)
      [] op = "cld" -> Op(SetFlag(s, FlagD, FALSE), 0)
      [] op = "sed" -> Op(SetFlag(s, FlagD, TRUE), 0)

(******************************* CPU.step **********************************)
\* CPU.step: [s, ret, fetched, unknown, opcode, at, eff_addr]
\* ret is the value returned; fetched tells whether this call read an opcode,
\* unknown whether that opcode had no entry, at is the pc it was read from and
\* eff_addr the effective address of its addressing mode (line 327).
StepOut(s, ret, fetched, unknown, opcode, at, eff_addr) ==
    [s |-> s, ret |-> ret, fetched |-> fetched, unknown |-> unknown,
     opcode |-> opcode, at |-> at, eff_addr |-> eff_addr]

\* a call that burns a cycle reports no cycle
BurnCycleUncounted(s) ==
    StepOut([s EXCEPT !.cpu.cycles_remaining = @ - 1], 0, FALSE, FALSE, 0, 0, 0)

\* CPU.step while cycles_remaining > 0: lines 316-318
BurnCycle(s) ==
    StepOut([s EXCEPT !.cpu.cycles_remaining = @ - 1], 1, FALSE, FALSE, 0, 0, 0)

CPU_step(s) ==
    LET Done(at, opc, eff_addr, total_op_cycles, r) ==
            StepOut([r.s EXCEPT !.cpu.cycles_remaining = total_op_cycles - 1,
                                !.cpu.total_cycles = @ + total_op_cycles],
                    total_op_cycles, TRUE, FALSE, opc, at, eff_addr)
        Run(at, opc, eff_addr, info, r) == Done(at, opc, eff_addr, info.cycles + r.add, r)
        Address(at, opc, info, m) ==
            Run(at, opc, m.addr, info, Exec(info.op, info.mode, m.s, m.addr, m.crossed))
        Decode(at, opc, table, s1) ==
            IF opc \notin DOMAIN table
            THEN StepOut([s1 EXCEPT !.cpu.cycles_remaining = 1],
                         1, TRUE, TRUE, opc, at, 0)
            ELSE Address(at, opc, table[opc], AddrMode(table[opc].mode, s1))
        Fetched(at, f) ==
            Decode(at, f.v, opcodes,
                   [f.s EXCEPT !.cpu.current_opcode = f.v,
                               !.cpu.pc = (at + 1) % 65536])
    IN  IF s.cpu.cycles_remaining > 0
        THEN BurnCycle(s)
        ELSE Fetched(s.cpu.pc, CpuRead(s, s.cpu.pc))

\* the dispatcher of the methods of class CPU
CPU(method, s, a, b) ==
    CASE method = "read" -> CPU_read(s, a)
      [] method = "write" -> CPU_write(s, a, b)
      [] method = "reset" -> CPU_reset(s)
      [] method = "nmi" -> CPU_nmi(s)
      [] method = "irq" -> CPU_irq(s)
      [] method = "step" -> CPU_step(s)

(****************************** PPU stepping *******************************)
\* rendering taken to be on whatever PPUMASK holds
IsRenderingEnabledAlways(s) == s.ppu.ppumask >= 0

\* PPU.is_rendering_enabled
IsRenderingEnabled(s) == Bit(s.ppu.ppumask, 3) = 1 \/ Bit(s.ppu.ppumask, 4) = 1

\* PPU._increment_scroll_x
IncrementScrollX(s) ==
    IF ~IsRenderingEnabled(s) THEN s
    ELSE IF s.ppu.vram_addr_v % 32 = 31
    THEN [s EXCEPT !.ppu.vram_addr_v = BitXor(BitClear(@, 31), 1024)]
    ELSE [s EXCEPT !.ppu.vram_addr_v = @ + 1]

\* _increment_scroll_y with coarse Y 29 stepped like any other row
IncrementScrollYPlain(s) ==
    IF ~IsRenderingEnabled(s) THEN s
    ELSE IF BitAnd(s.ppu.vram_addr_v, 28672) # 28672
    THEN [s EXCEPT !.ppu.vram_addr_v = @ + 4096]
    ELSE LET v1 == BitClear(s.ppu.vram_addr_v, 28672)
             y == BitAnd(v1, 992) \div 32
             y2 == IF y = 31 THEN 0 ELSE y + 1
         IN  [s EXCEPT !.ppu.vram_addr_v = BitOr(BitClear(v1, 992), y2 * 32)]

\* PPU._increment_scroll_y
IncrementScrollY(s) ==
    IF ~IsRenderingEnabled(s) THEN s
    ELSE IF BitAnd(s.ppu.vram_addr_v, 28672) # 28672
    THEN [s EXCEPT !.ppu.vram_addr_v = @ + 4096]
    ELSE LET v1 == BitClear(s.ppu.vram_addr_v, 28672)
             y == BitAnd(v1, 992) \div 32
             v2 == IF y = 29 THEN BitXor(v1, 2048) ELSE v1
             y2 == IF y = 29 THEN 0 ELSE IF y = 31 THEN 0 ELSE y + 1
         IN  [s EXCEPT !.ppu.vram_addr_v = BitOr(BitClear(v2, 992), y2 * 32)]

\* PPU._transfer_address_x
TransferAddressX(s) ==
    IF ~IsRenderingEnabled(s) THEN s
    ELSE [s EXCEPT !.ppu.vram_addr_v =
              BitOr(BitAnd(@, 64480), BitAnd(s.ppu.temp_vram_addr_t, 1055))]

\* PPU._transfer_address_y
TransferAddressY(s) ==
    IF ~IsRenderingEnabled(s) THEN s
    ELSE [s EXCEPT !.ppu.vram_addr_v =
              BitOr(BitAnd(@, 33823), BitAnd(s.ppu.temp_vram_addr_t, 31712))]

\* PPU._load_background_shifters
LoadBackgroundShifters(s) ==
    LET p == s.ppu
    IN  [s EXCEPT
          !.ppu.bg_shifter_pattern_lo = BitOr(BitAnd(@, 65280), p.bg_pattern_lo_latch),
          !.ppu.bg_shifter_pattern_hi = BitOr(BitAnd(@, 65280), p.bg_pattern_hi_latch),
          !.ppu.bg_shifter_attrib_lo =
              BitOr(BitAnd(@, 65280), IF Bit(p.bg_at_latch, 0) = 1 THEN 255 ELSE 0),
          !.ppu.bg_shifter_attrib_hi =
              BitOr(BitAnd(@, 65280), IF Bit(p.bg_at_latch, 1) = 1 THEN 255 ELSE 0)]

\* a sprite shifter holds val * 2^sh: Python shifts it left without a mask
ShiftLeft(r) == IF r.val = 0 THEN r ELSE [r EXCEPT !.sh = @ + 1]

\* PPU._update_shifters
UpdateShifters(s) ==
    LET p == s.ppu
        s1 == IF Bit(p.ppumask, 3) = 1
              THEN [s EXCEPT !.ppu.bg_shifter_pattern_lo = @ * 2,
                             !.ppu.bg_shifter_pattern_hi = @ * 2,
                             !.ppu.bg_shifter_attrib_lo = @ * 2,
                             !.ppu.bg_shifter_attrib_hi = @ * 2]
              ELSE s
        act(i) == i < p.sprite_count_scanline
    IN  IF Bit(p.ppumask, 4) = 1 /\ 1 <= p.cycle /\ p.cycle < 258
        THEN [s1 EXCEPT
               !.ppu.sprite_x_counters =
                   [i \in 0..7 |-> IF act(i) /\ @[i] > 0 THEN @[i] - 1 ELSE @[i]],
               !.ppu.sprite_shifter_pattern_lo =
                   [i \in 0..7 |-> IF act(i) /\ p.sprite_x_counters[i] <= 0
                                   THEN ShiftLeft(@[i]) ELSE @[i]],
               !.ppu.sprite_shifter_pattern_hi =
                   [i \in 0..7 |-> IF act(i) /\ p.sprite_x_counters[i] <= 0
                                   THEN ShiftLeft(@[i]) ELSE @[i]]]
        ELSE s1

\* reversal of the 8 bits of a byte: int('{:08b}'.format(b)[::-1], 2)
Rev8(b) ==
    128 * Bit(b, 0) + 64 * Bit(b, 1) + 32 * Bit(b, 2) + 16 * Bit(b, 3)
    + 8 * Bit(b, 4) + 4 * Bit(b, 5) + 2 * Bit(b, 6) + Bit(b, 7)

\* PPU._evaluate_sprites_for_scanline: y <= target_scanline < y + sprite_height
SpriteInRange(y, target, height) == y <= target /\ target < y + height

\* PPU._evaluate_sprites_for_scanline, first loop: the scan of the OAM entries
\* i..j in order of i, the range split in two halves; e = [sec, num_found,
\* zero, overflow], and overflow is set where the loop breaks
RECURSIVE SpriteScan(_, _, _, _, _, _)
SpriteScan(oam, target, height, i, j, e) ==
    LET Select(y) ==
            IF y >= 240 THEN e
            ELSE IF SpriteInRange(y, target, height)
            THEN IF e.num_found < 8
                 THEN [e EXCEPT
                         !.sec = [k \in 0..31 |->
                                    IF k \div 4 = e.num_found
                                    THEN Get(oam, i * 4 + (k % 4)) ELSE @[k]],
                         !.zero = IF i = 0 THEN TRUE ELSE @,
                         !.num_found = @ + 1]
                 ELSE [e EXCEPT !.overflow = TRUE]
            ELSE e
        Upper(mid, e1) ==
            IF e1.num_found >= 0 THEN SpriteScan(oam, target, height, mid + 1, j, e1) ELSE e1
        Halves(mid) == Upper(mid, SpriteScan(oam, target, height, i, mid, e))
    IN  IF e.overflow THEN e
        ELSE IF i = j THEN Select(Get(oam, i * 4))
        ELSE Halves((i + j) \div 2)

\* PPU._evaluate_sprites_for_scanline, second loop: the pattern row of the
\* selected sprite i
SpriteRow(s, target, height, i) ==
    LET Flip(flip_h, b) == IF flip_h = 1 THEN Rev8(b) ELSE b
        Patterns(attributes, x_coord, addr) ==
            [lo |-> Flip(Bit(attributes, 6), ReadPpuMemory(s, addr)),
             hi |-> Flip(Bit(attributes, 6), ReadPpuMemory(s, addr + 8)),
             attributes |-> attributes, x |-> x_coord]
        Tall(attributes, x_coord, pt_base, tile, row_in_sprite) ==
            IF height = 16
            THEN Patterns(attributes, x_coord,
                          pt_base
                          + (BitAnd(tile, 254) + (IF row_in_sprite >= 8 THEN 1 ELSE 0)) * 16
                          + (IF row_in_sprite >= 8 THEN row_in_sprite - 8 ELSE row_in_sprite))
            ELSE Patterns(attributes, x_coord, pt_base + tile * 16 + row_in_sprite)
        Entry(y_coord, tile_id, attributes, x_coord) ==
            Tall(attributes, x_coord,
                 IF height = 8
                 THEN (IF Bit(s.ppu.ppuctrl, 3) = 1 THEN 4096 ELSE 0)
                 ELSE (IF Bit(tile_id, 0) = 1 THEN 4096 ELSE 0),
                 tile_id,
                 IF Bit(attributes, 7) = 1
                 THEN (height - 1) - (target - y_coord) ELSE target - y_coord)
    IN  Entry(s.ppu.secondary_oam[i * 4], s.ppu.secondary_oam[i * 4 + 1],
              s.ppu.secondary_oam[i * 4 + 2], s.ppu.secondary_oam[i * 4 + 3])

\* PPU._evaluate_sprites_for_scanline
EvaluateSpritesForScanline(s, target) ==
    LET Load(s1, num_found, zero, row) ==
            [s1 EXCEPT
               !.ppu.sprite_shifter_pattern_lo =
                   [i \in 0..7 |-> IF i < num_found
                                   THEN [val |-> row[i].lo, sh |-> 0] ELSE @[i]],
               !.ppu.sprite_shifter_pattern_hi =
                   [i \in 0..7 |-> IF i < num_found
                                   THEN [val |-> row[i].hi, sh |-> 0] ELSE @[i]],
               !.ppu.sprite_attributes =
                   [i \in 0..7 |-> IF i < num_found THEN row[i].attributes ELSE @[i]],
               !.ppu.sprite_x_counters =
                   [i \in 0..7 |-> IF i < num_found THEN row[i].x ELSE @[i]],
               !.ppu.sprite_zero_being_rendered = num_found > 0 /\ zero]
        Rows(s1, height, num_found, zero) ==
            Load(s1, num_found, zero,
                 [i \in 0..(num_found - 1) |-> SpriteRow(s1, target, height, i)])
        Found(height, e) ==
            Rows([s EXCEPT !.ppu.secondary_oam = e.sec,
                           !.ppu.sprite_zero_hit_possible = e.zero,
                           !.ppu.ppustatus = IF e.overflow THEN BitOr(@, 32) ELSE @,
                           !.ppu.sprite_count_scanline = e.num_found],
                 height, e.num_found, e.zero)
        Scan(height) ==
            Found(height,
                  SpriteScan(s.ppu.oam, target, height, 0, 63,
                             [sec |-> [k \in 0..31 |-> 255], num_found |-> 0,
                              zero |-> FALSE, overflow |-> FALSE]))
    IN  IF ~(0 <= target /\ target < VISIBLE_SCANLINES)
        THEN [s EXCEPT !.ppu.sprite_count_scanline = 0]
        ELSE Scan(IF Bit(s.ppu.ppuctrl, 5) = 1 THEN 16 ELSE 8)

\* PPU.step_ppu, the background fetch of one dot of the fetch windows
BackgroundFetch(s) ==
    LET AtAddr(v) == BitOr(BitOr(BitOr(9152, BitAnd(v, 3072)), BitAnd(v \div 16, 56)),
                          BitAnd(v \div 4, 7))
        AtShift(v) == BitOr(BitAnd(v \div 16, 4), BitAnd(v \div 4, 2))
        PtAddr(p) == (IF Bit(p.ppuctrl, 4) = 1 THEN 4096 ELSE 0)
                     + p.bg_nt_latch * 16 + ((p.vram_addr_v \div 4096) % 8)
        NtFetch(s2) ==
            [s2 EXCEPT !.ppu.bg_nt_latch =
                           ReadPpuMemory(s2, BitOr(8192, s2.ppu.vram_addr_v % 4096))]
        Fetch(s1, fc_phase) ==
            IF fc_phase = 0 THEN NtFetch(LoadBackgroundShifters(s1))
            ELSE IF fc_phase = 2
            THEN [s1 EXCEPT !.ppu.bg_at_latch =
                     (ReadPpuMemory(s1, AtAddr(s1.ppu.vram_addr_v))
                        \div (2^AtShift(s1.ppu.vram_addr_v))) % 4]
            ELSE IF fc_phase = 4
            THEN [s1 EXCEPT !.ppu.bg_pattern_lo_latch = ReadPpuMemory(s1, PtAddr(s1.ppu))]
            ELSE IF fc_phase = 6
            THEN [s1 EXCEPT !.ppu.bg_pattern_hi_latch =
                                ReadPpuMemory(s1, PtAddr(s1.ppu) + 8)]
            ELSE IF fc_phase = 7 THEN IncrementScrollX(s1)
            ELSE s1
    IN  Fetch(UpdateShifters(s), (s.ppu.cycle - 1) % 8)

\* PPU.step_ppu, lines 486-491: the pre-render scanline
PreRender(s) ==
    LET Clear(t) ==
            IF t.ppu.cycle = 1
            THEN [t EXCEPT
                   !.ppu.ppustatus = BitClear(@, BitOr(BitOr(FlagV, FlagB), 32)),
                   !.ppu.nmi_occurred_this_frame = FALSE,
                   !.ppu.nmi_output = FALSE,
                   !.ppu.sprite_shifter_pattern_lo = [i \in 0..7 |-> [val |-> 0, sh |-> 0]],
                   !.ppu.sprite_shifter_pattern_hi = [i \in 0..7 |-> [val |-> 0, sh |-> 0]]]
            ELSE t
        Transfer(t) ==
            IF 280 <= t.ppu.cycle /\ t.ppu.cycle <= 304 /\ IsRenderingEnabled(t)
            THEN TransferAddressY(t) ELSE t
    IN  Transfer(Clear(s))

\* PPU.step_ppu, lines 493-520: sprite evaluation, fetches and scroll updates
RenderLine(s) ==
    LET c == s.ppu.cycle
        Sprites(t) == IF c = 257 /\ IsRenderingEnabled(t)
                      THEN EvaluateSpritesForScanline(t, t.ppu.scanline + 1) ELSE t
        Fetches(t) == IF (2 <= c /\ c < 258) \/ (322 <= c /\ c < 338)
                      THEN BackgroundFetch(t) ELSE t
        ScrollY(t) == IF c = 256 /\ IsRenderingEnabled(t) THEN IncrementScrollY(t) ELSE t
        ScrollX(t) == IF c = 257 /\ IsRenderingEnabled(t) THEN TransferAddressX(t) ELSE t
        Background(t) == IF IsRenderingEnabled(t) THEN ScrollX(ScrollY(Fetches(t))) ELSE t
    IN  Background(Sprites(s))

\* PPU.step_ppu, lines 522-526: start of vertical blank
VBlankStart(s) ==
    IF ~s.ppu.nmi_occurred_this_frame
    THEN [s EXCEPT !.ppu.ppustatus = BitOr(@, FlagV),
                   !.ppu.nmi_output = IF Bit(s.ppu.ppuctrl, 7) = 1 THEN TRUE ELSE @,
                   !.ppu.nmi_occurred_this_frame = TRUE]
    ELSE s

(***************************** the framebuffer *****************************)
\* The pygame Surface of 256 x 240 pixels is held run-length encoded.  A run
\* list is a sequence of runs [to, v]: run i gives the value v to the
\* positions from the end of run i - 1 (0 for the first run) up to to - 1, and
\* two runs that follow each other differ in v.  A row is the run list of its
\* 256 colours, an (r, g, b) triple of NES_PALETTE each, and the surface is
\* the run list of its 240 rows.

\* the index of the run that holds position k
RunIndex(runs, k) == 1 + Cardinality({i \in DOMAIN runs : runs[i].to <= k})

\* the value at position k
RunValue(runs, k) == runs[RunIndex(runs, k)].v

\* position k takes the value v: it is cut out of its run, and joined to the
\* run before it or after it when that run has the value v
RunPut(runs, k, v) ==
    LET i == RunIndex(runs, k)
        n == Len(runs)
        start == IF i = 1 THEN 0 ELSE runs[i - 1].to
        joins_left == start = k /\ i > 1 /\ runs[i - 1].v = v
        joins_right == k + 1 = runs[i].to /\ i < n /\ runs[i + 1].v = v
        left == IF start < k THEN <<[to |-> k, v |-> runs[i].v]>> ELSE <<>>
        right == IF k + 1 < runs[i].to THEN <<runs[i]>> ELSE <<>>
        before == SubSeq(runs, 1, IF joins_left THEN i - 2 ELSE i - 1)
        after == SubSeq(runs, IF joins_right THEN i + 2 ELSE i + 1, n)
        put == [to |-> IF joins_right THEN runs[i + 1].to ELSE k + 1, v |-> v]
    IN  IF runs[i].v = v THEN runs
        ELSE before \o left \o <<put>> \o right \o after

\* Surface.fill(colour)
Fill(colour) ==
    <<[to |-> VISIBLE_SCANLINES, v |-> <<[to |-> SCREEN_WIDTH, v |-> colour]>>]>>

\* pygame.Surface((SCREEN_WIDTH, SCREEN_HEIGHT)): a new surface is black
NewSurface == Fill(<<0, 0, 0>>)

\* Surface.get_at((x, y))[:3]
GetAt(fb, x, y) == RunValue(RunValue(fb, y), x)

\* Surface.set_at((x, y), colour)
SetAt(fb, x, y, colour) == RunPut(fb, y, RunPut(RunValue(fb, y), x, colour))

\* NES_PALETTE[idx & 0x3F]
Colour(idx) == NES_PALETTE[(idx % 64) + 1]

\* PPU.step_ppu, lines 528-564: one pixel; the background colour goes to the
\* framebuffer, and fb_set_at counts the set_at calls made on it
Pixel(s) ==
    LET p == s.ppu
        pixel_x == p.cycle - 1
        mux == 32768 \div (2^p.fine_x_scroll)
        bg_on == Bit(p.ppumask, 3) = 1
        p_low == IF BitAnd(p.bg_shifter_pattern_lo, mux) > 0 THEN 1 ELSE 0
        p_hi == IF BitAnd(p.bg_shifter_pattern_hi, mux) > 0 THEN 1 ELSE 0
        bg_pixel_pattern_val == IF bg_on THEN 2 * p_hi + p_low ELSE 0
        attr_low == IF BitAnd(p.bg_shifter_attrib_lo, mux) > 0 THEN 1 ELSE 0
        attr_hi == IF BitAnd(p.bg_shifter_attrib_hi, mux) > 0 THEN 1 ELSE 0
        palette_addr == 16128 + 4 * (2 * attr_hi + attr_low) + bg_pixel_pattern_val
        final_pixel_color_idx ==
            IF bg_pixel_pattern_val # 0 THEN ReadPpuMemory(s, palette_addr)
            ELSE ReadPpuMemory(s, 16128)
        shown == IF Bit(p.ppumask, 1) = 0 /\ pixel_x < 8 THEN ReadPpuMemory(s, 16128)
                 ELSE final_pixel_color_idx
        no_hit_due_to_clipping ==
            pixel_x < 8 /\ (Bit(p.ppumask, 1) = 0 \/ Bit(p.ppumask, 2) = 0)
        hit == /\ p.sprite_zero_hit_possible /\ p.sprite_zero_being_rendered
               /\ bg_on /\ Bit(p.ppumask, 4) = 1
               /\ Bit(p.ppustatus, 6) = 0
               /\ pixel_x # 255
               /\ ~no_hit_due_to_clipping /\ bg_pixel_pattern_val # 0
    IN  [s EXCEPT !.ppu.ppustatus = IF hit THEN BitOr(@, 64) ELSE @,
                  !.ppu.framebuffer = SetAt(@, pixel_x, p.scanline, Colour(shown)),
                  !.ppu.fb_set_at = @ + 1]

\* PPU._render_sprites_overlay, the body of the innermost loop for visit k of
\* height * 8 * 64 visits: sprite 63 - k \div (8 * height) (the entries are
\* taken from OAM[252] down to OAM[0]), row (k \div 8) % height, bit k % 8
OverlayVisit(s, height, k) ==
    LET p == s.ppu
        i == 4 * (63 - (k \div (8 * height)))
        row == (k \div 8) % height
        bit_idx == k % 8
        y_coord == Get(p.oam, i)
        tile_id == Get(p.oam, i + 1)
        attr == Get(p.oam, i + 2)
        x_coord == Get(p.oam, i + 3)
        palette_idx_high == attr % 4
        priority_behind == Bit(attr, 5)
        flip_h == Bit(attr, 6)
        flip_v == Bit(attr, 7)
        draw_y == y_coord + row
        flipped_row == IF flip_v = 1 THEN (height - 1) - row ELSE row
        final_pt_base == IF height = 16
                         THEN IF tile_id % 2 = 1 THEN 4096 ELSE 0
                         ELSE IF Bit(p.ppuctrl, 3) = 1 THEN 4096 ELSE 0
        current_tile == IF height = 16
                        THEN BitAnd(tile_id, 254) + (IF flipped_row >= 8 THEN 1 ELSE 0)
                        ELSE tile_id
        eff_row == IF height = 16 /\ flipped_row >= 8 THEN flipped_row - 8 ELSE flipped_row
        addr == final_pt_base + current_tile * 16 + eff_row
        draw_x == x_coord + bit_idx
        eff_bit == IF flip_h = 1 THEN 7 - bit_idx ELSE bit_idx
        palette_idx_low == 2 * Bit(ReadPpuMemory(s, addr + 8), 7 - eff_bit)
                           + Bit(ReadPpuMemory(s, addr), 7 - eff_bit)
        hidden == /\ priority_behind = 1
                  /\ GetAt(p.framebuffer, draw_x, draw_y) # Colour(ReadPpuMemory(s, 16128))
        final_idx == ReadPpuMemory(s, 16144 + 4 * palette_idx_high + palette_idx_low)
    IN  IF \/ y_coord >= 240
           \/ draw_y >= VISIBLE_SCANLINES
           \/ draw_x >= SCREEN_WIDTH
           \/ (Bit(p.ppumask, 2) = 0 /\ draw_x < 8)
           \/ palette_idx_low = 0
           \/ hidden
        THEN s
        ELSE [s EXCEPT !.ppu.framebuffer = SetAt(@, draw_x, draw_y, Colour(final_idx)),
                       !.ppu.fb_set_at = @ + 1]

\* the visits i..j in order, the range split in two halves
RECURSIVE OverlayVisits(_, _, _, _)
OverlayVisits(s, height, i, j) ==
    LET Upper(mid, s1) == IF Evaluated(s1) THEN OverlayVisits(s1, height, mid + 1, j) ELSE s1
        Halves(mid) == Upper(mid, OverlayVisits(s, height, i, mid))
    IN  IF i = j THEN OverlayVisit(s, height, i) ELSE Halves((i + j) \div 2)

\* PPU._render_sprites_overlay: lines 630-688
RenderSpritesOverlay(s) ==
    LET Sprites(height) == OverlayVisits(s, height, 0, height * 8 * 64 - 1)
    IN  IF Bit(s.ppu.ppumask, 4) = 0 THEN s
        ELSE Sprites(IF Bit(s.ppu.ppuctrl, 5) = 1 THEN 16 ELSE 8)

\* the dot counter wraps one dot late: a scanline of 342 dots
AdvanceDotLongLine(t) ==
    IF t.ppu.cycle + 1 > PPU_CYCLES_PER_SCANLINE
    THEN IF t.ppu.scanline + 1 > SCANLINES_PER_FRAME - 2
         THEN RenderSpritesOverlay([t EXCEPT !.ppu.cycle = 0, !.ppu.scanline = -1,
                                             !.ppu.frame_count = @ + 1])
         ELSE [t EXCEPT !.ppu.cycle = 0, !.ppu.scanline = @ + 1]
    ELSE [t EXCEPT !.ppu.cycle = @ + 1]

\* PPU.step_ppu, the counters at the end of the dot and the sprites drawn
\* when the frame ends: lines 565-571
AdvanceDot(t) ==
    IF t.ppu.cycle + 1 > PPU_CYCLES_PER_SCANLINE - 1
    THEN IF t.ppu.scanline + 1 > SCANLINES_PER_FRAME - 2
         THEN RenderSpritesOverlay([t EXCEPT !.ppu.cycle = 0, !.ppu.scanline = -1,
                                             !.ppu.frame_count = @ + 1])
         ELSE [t EXCEPT !.ppu.cycle = 0, !.ppu.scanline = @ + 1]
    ELSE [t EXCEPT !.ppu.cycle = @ + 1]

\* PPU.step_ppu
StepPpu(s) ==
    LET Pre(t) == IF t.ppu.scanline = -1 THEN PreRender(t) ELSE t
        Render(t) == IF -1 <= t.ppu.scanline /\ t.ppu.scanline < VISIBLE_SCANLINES
                     THEN RenderLine(t) ELSE t
        VBlank(t) == IF t.ppu.scanline = VBLANK_SCANLINE_START /\ t.ppu.cycle = 1
                     THEN VBlankStart(t) ELSE t
        Draw(t) == IF /\ 0 <= t.ppu.scanline /\ t.ppu.scanline < VISIBLE_SCANLINES
                      /\ 1 <= t.ppu.cycle /\ t.ppu.cycle <= SCREEN_WIDTH
                   THEN Pixel(t) ELSE t
    IN  AdvanceDot(Draw(VBlank(Render(Pre(s)))))

\* reset that also empties the nametables and OAM
PpuResetClears(s) ==
    [s EXCEPT !.ppu.vram = <<>>, !.ppu.oam = <<>>,
              !.ppu.ppuctrl = 0, !.ppu.ppumask = 0, !.ppu.ppustatus = FlagU,
              !.ppu.oamaddr = 0, !.ppu.vram_addr_v = 0, !.ppu.temp_vram_addr_t = 0,
              !.ppu.fine_x_scroll = 0, !.ppu.addr_latch_w = FALSE,
              !.ppu.data_buffer = 0, !.ppu.scanline = -1, !.ppu.cycle = 0,
              !.ppu.nmi_occurred_this_frame = FALSE, !.ppu.nmi_output = FALSE,
              !.ppu.bg_nt_latch = 0, !.ppu.bg_at_latch = 0,
              !.ppu.bg_pattern_lo_latch = 0, !.ppu.bg_pattern_hi_latch = 0,
              !.ppu.bg_shifter_pattern_lo = 0, !.ppu.bg_shifter_pattern_hi = 0,
              !.ppu.bg_shifter_attrib_lo = 0, !.ppu.bg_shifter_attrib_hi = 0,
              !.ppu.framebuffer = Fill(Colour(13))]

\* PPU.reset
PpuReset(s) ==
    [s EXCEPT !.ppu.ppuctrl = 0, !.ppu.ppumask = 0, !.ppu.ppustatus = FlagU,
              !.ppu.oamaddr = 0, !.ppu.vram_addr_v = 0, !.ppu.temp_vram_addr_t = 0,
              !.ppu.fine_x_scroll = 0, !.ppu.addr_latch_w = FALSE,
              !.ppu.data_buffer = 0, !.ppu.scanline = -1, !.ppu.cycle = 0,
              !.ppu.nmi_occurred_this_frame = FALSE, !.ppu.nmi_output = FALSE,
              !.ppu.bg_nt_latch = 0, !.ppu.bg_at_latch = 0,
              !.ppu.bg_pattern_lo_latch = 0, !.ppu.bg_pattern_hi_latch = 0,
              !.ppu.bg_shifter_pattern_lo = 0, !.ppu.bg_shifter_pattern_hi = 0,
              !.ppu.bg_shifter_attrib_lo = 0, !.ppu.bg_shifter_attrib_hi = 0,
              !.ppu.framebuffer = Fill(Colour(13))]

(******************************* ROM images ********************************)
\* bytes b[1..] placed at offsets base, base+1, ...
At(base, b) == [i \in base..(base + Len(b) - 1) |-> b[i - base + 1]]

\* the parsed image of ROM.__init__ for a mapper-0 cartridge
RomImage(prg_banks, chr_banks, mirroring, prg_rom, prg_fill, chr_mem) ==
    [prg_banks |-> prg_banks, chr_banks |-> chr_banks, mapper |-> 0,
     mirroring |-> mirroring, is_chr_ram |-> (chr_banks = 0),
     prg_rom |-> prg_rom, prg_fill |-> prg_fill, prg_len |-> 16384 * prg_banks,
     chr_mem |-> chr_mem, chr_len |-> IF chr_banks = 0 THEN 8192 ELSE 8192 * chr_banks]

\* SAMPLE_ROM_DATA: one PRG bank of NOPs holding the demo program at $C000,
\* its NMI handler at $C100 and the three vectors; one CHR bank with 3 tiles
SampleRom ==
    RomImage(1, 1, 0,
        At(0, <<120, 216, 162, 255, 154, 169, 144, 141, 0, 32, 169, 30, 141, 1, 32,
                173, 2, 32, 41, 128, 240, 250,
                173, 2, 32, 41, 128, 240, 250,
                173, 22, 64, 41, 1,
                240, 8,
                169, 22, 141, 0, 63,
                76, 49, 192,
                169, 18, 141, 0, 63,
                76, 22, 192>>)
        @@ At(256, <<169, 40, 141, 1, 63, 64>>)
        @@ At(16378, <<0, 193, 0, 192, 0, 192>>),
        234,
        [i \in 16..47 |-> IF i < 24 THEN 170 ELSE IF i < 32 THEN 85 ELSE 255])

\* a two-bank CHR-RAM cartridge, horizontal mirroring, reset vector $8000:
\*   LDX #0 / TXA / STA $0200,X / INX / BNE -7     fill page 2 with 0..255
\*   LDA #3 / STA $2003 / LDA #2 / STA $4014       OAM DMA of page 2
\*   ADC #1 / NOP / NOP / JMP $8017                ADC immediate is byte $69
DmaRom ==
    RomImage(2, 0, 1,
        At(0, <<162, 0, 138, 157, 0, 2, 232, 208, 249,
                169, 3, 141, 3, 32, 169, 2, 141, 20, 64,
                105, 1, 234, 234, 76, 23, 128>>)
        @@ At(32762, <<23, 128, 0, 128, 23, 128>>),
        234, <<>>)

\* a one-bank cartridge whose reset vector points at LDA #v / STA $2000
LdaStaRom(v) ==
    RomImage(1, 1, 0,
        At(0, <<169, v, 141, 0, 32>>) @@ At(16378, <<0, 128, 0, 128, 0, 128>>),
        234, <<>>)

\* a one-bank cartridge of NOPs whose reset vector is the word hi:lo; its NMI
\* vector is $C100 and its IRQ vector $C000
VectorRom(lo, hi) ==
    RomImage(1, 1, 0, At(16378, <<0, 193, lo, hi, 0, 192>>), 234, <<>>)

\* a one-bank cartridge that never touches the PPU; reset vector $8000:
\*   NOP / INC $0200 / INC $10 / INC $0300,X / JMP $8000
DriftRom ==
    RomImage(1, 1, 0,
        At(0, <<234, 238, 0, 2, 230, 16, 254, 0, 3, 76, 0, 128>>)
        @@ At(16378, <<0, 128, 0, 128, 0, 128>>),
        234, <<>>)

\* a one-bank cartridge that loads the status register from the stack; reset
\* vector $8000, IRQ/BRK vector $8010, NMI vector $8018:
\*   $8000  LDA #v / PHA / PLP / PHA / RTI     RTI returns to $0000, a BRK
\*   $8010  PHP / PLP / NOP ...
\*   $8018  RTI
FlagRom(v) ==
    RomImage(1, 1, 0,
        At(0, <<169, v, 72, 40, 72, 64>>) @@ At(16, <<8, 40>>) @@ At(24, <<64>>)
        @@ At(16378, <<24, 128, 0, 128, 16, 128>>),
        234, <<>>)

\* a one-bank cartridge that moves the stack pointer and then pushes and pops;
\* reset vector $8000, NMI and IRQ/BRK vectors $8020:
\*   $8000  LDX #x / TXS / LDA #p / PHA / PLP / PHP / PLA / PHA / PLA
\*   $800B  JMP $800B
\*   $8020  RTI
StackRom(x, p) ==
    RomImage(1, 1, 0,
        At(0, <<162, x, 154, 169, p, 72, 40, 8, 104, 72, 104, 76, 11, 128>>)
        @@ At(32, <<64>>)
        @@ At(16378, <<32, 128, 0, 128, 32, 128>>),
        234, <<>>)

\* a one-bank cartridge that calls subroutines; reset vector $8000:
\*   $8000  LDX #x / TXS / JMP $80FE
\*   $80FE  JSR $9000      (its last byte is at $8100)
\*   $8101  JSR $C200      ($C200 mirrors $8200)
\*   $8104  JMP $8104
\*   $8200  RTS
\*   $9000  PHA / JSR $8200 / PLA / RTS
JsrRom(x) ==
    RomImage(1, 1, 0,
        At(0, <<162, x, 154, 76, 254, 128>>)
        @@ At(254, <<32, 0, 144, 32, 0, 194, 76, 4, 129>>)
        @@ At(512, <<96>>)
        @@ At(4096, <<72, 32, 0, 130, 104, 96>>)
        @@ At(16378, <<4, 129, 0, 128, 4, 129>>),
        234, <<>>)

\* a one-bank cartridge that runs the eight branch instructions; reset vector
\* $8000.  Page $80+k holds, for the k-th of BPL BMI BVC BVS BCC BCS BNE BEQ:
\*   a flag setter and the branch, not taken
\*   a flag setter and the branch, taken over one byte of the same page
\*   JMP to a flag setter that ends at $xxFB and the branch at $xxFC, taken
\*   to $00 of the next page
\* (setters: LDA #, CLV, CLC, SEC, and BIT $8FF0, which holds $40), then at
\* $8800  CLC / BCC -3, a backward branch taken for ever
BranchRom ==
    RomImage(1, 1, 0,
        At(0, <<169, 128, 16, 2, 169, 0, 16, 1, 2, 76, 250, 128>>)
        @@ At(250, <<169, 0, 16, 2>>)
        @@ At(256, <<169, 0, 48, 2, 169, 128, 48, 1, 2, 76, 250, 129>>)
        @@ At(506, <<169, 128, 48, 2>>)
        @@ At(512, <<44, 240, 143, 80, 2, 184, 80, 1, 2, 76, 251, 130>>)
        @@ At(763, <<184, 80, 2>>)
        @@ At(768, <<184, 112, 2, 44, 240, 143, 112, 1, 2, 76, 249, 131>>)
        @@ At(1017, <<44, 240, 143, 112, 2>>)
        @@ At(1024, <<56, 144, 2, 24, 144, 1, 2, 76, 251, 132>>)
        @@ At(1275, <<24, 144, 2>>)
        @@ At(1280, <<24, 176, 2, 56, 176, 1, 2, 76, 251, 133>>)
        @@ At(1531, <<56, 176, 2>>)
        @@ At(1536, <<169, 0, 208, 2, 169, 1, 208, 1, 2, 76, 250, 134>>)
        @@ At(1786, <<169, 1, 208, 2>>)
        @@ At(1792, <<169, 1, 240, 2, 169, 0, 240, 1, 2, 76, 250, 135>>)
        @@ At(2042, <<169, 0, 240, 2>>)
        @@ At(2048, <<24, 144, 253>>)
        @@ At(4080, <<64>>)
        @@ At(16378, <<0, 136, 0, 128, 0, 136>>),
        234, <<>>)

(****************************** construction *******************************)
\* Controller.__init__
NewController == [buttons |-> [i \in 1..8 |-> FALSE], strobe |-> FALSE, index |-> 0]

\* CPU.__init__ and PPU.__init__ before their reset() calls
Blank(r) ==
    [cpu |-> [pc |-> 0, sp |-> 0, acc |-> 0, x |-> 0, y |-> 0, status |-> 0,
              cycles_remaining |-> 0, total_cycles |-> 0, current_opcode |-> 0,
              ram |-> <<>>],
     ppu |-> [vram |-> <<>>, palette_ram |-> <<>>, oam |-> <<>>,
              secondary_oam |-> [k \in 0..31 |-> 0],
              ppuctrl |-> 0, ppumask |-> 0, ppustatus |-> 0, oamaddr |-> 0,
              vram_addr_v |-> 0, temp_vram_addr_t |-> 0, fine_x_scroll |-> 0,
              addr_latch_w |-> FALSE, data_buffer |-> 0,
              scanline |-> -1, cycle |-> 0, frame_count |-> 0,
              nmi_occurred_this_frame |-> FALSE, nmi_output |-> FALSE,
              bg_nt_latch |-> 0, bg_at_latch |-> 0,
              bg_pattern_lo_latch |-> 0, bg_pattern_hi_latch |-> 0,
              bg_shifter_pattern_lo |-> 0, bg_shifter_pattern_hi |-> 0,
              bg_shifter_attrib_lo |-> 0, bg_shifter_attrib_hi |-> 0,
              sprite_count_scanline |-> 0,
              sprite_shifter_pattern_lo |-> [i \in 0..7 |-> [val |-> 0, sh |-> 0]],
              sprite_shifter_pattern_hi |-> [i \in 0..7 |-> [val |-> 0, sh |-> 0]],
              sprite_attributes |-> [i \in 0..7 |-> 0],
              sprite_x_counters |-> [i \in 0..7 |-> 0],
              sprite_zero_hit_possible |-> FALSE,
              sprite_zero_being_rendered |-> FALSE,
              framebuffer |-> NewSurface, fb_set_at |-> 0],
     pads |-> [i \in {1, 2} |-> NewController],
     rom |-> r]

\* NES.__init__: the machine for a parsed image
NesInit(r) == PpuReset(CpuReset(Blank(r)))

\* the machine held by the variables
M == [cpu |-> cpu, ppu |-> ppu, pads |-> pads, rom |-> rom]

Becomes(s) == /\ cpu' = s.cpu /\ ppu' = s.ppu /\ pads' = s.pads /\ rom' = s.rom


(******************************* ROM.__init__ ******************************)
\* A file image is [len, bytes]: len bytes, those at the offsets of DOMAIN
\* bytes as given there and zero at every other offset.
DataAt(d, i) == IF i \in DOMAIN d.bytes THEN d.bytes[i] ELSE 0

\* the Python slice d[a:b], which stops at the end of d
Slice(d, a, b) ==
    LET lo == IF a < d.len THEN a ELSE d.len
        hi == IF b < d.len THEN b ELSE d.len
        kept == {k \in DOMAIN d.bytes : k >= lo /\ k < hi}
    IN  [len |-> IF hi > lo THEN hi - lo ELSE 0,
         bytes |-> [i \in {k - lo : k \in kept} |-> d.bytes[i + lo]]]

\* b"NES\x1a"
Magic == <<78, 69, 83, 26>>

\* data[:4] == b"NES\x1a"
HasMagic(d) == d.len >= 4 /\ \A i \in 0..3 : DataAt(d, i) = Magic[i + 1]

\* ROM.__init__ after the magic test: [ok, rom] or [ok, error].  header[4..7]
\* index data[:16], so an image of fewer than 8 bytes raises IndexError
ParseRom(data) ==
    IF data.len < 8 THEN Raise("IndexError") ELSE
    LET prg_banks == DataAt(data, 4)
        chr_banks == DataAt(data, 5)
        has_trainer == Bit(DataAt(data, 6), 2) = 1
        prg_start == 16 + (IF has_trainer THEN 512 ELSE 0)
        prg_end == prg_start + 16384 * prg_banks
        prg == Slice(data, prg_start, prg_end)
        chr == IF chr_banks = 0 THEN [len |-> 8192, bytes |-> <<>>]
               ELSE Slice(data, prg_end, prg_end + 8192 * chr_banks)
    IN  [ok |-> TRUE,
         rom |-> [prg_banks |-> prg_banks, chr_banks |-> chr_banks,
                  mapper |-> BitOr(DataAt(data, 6) \div 16, BitAnd(DataAt(data, 7), 240)),
                  mirroring |-> DataAt(data, 6) % 2,
                  has_battery_ram |-> Bit(DataAt(data, 6), 1) = 1,
                  has_trainer |-> has_trainer,
                  is_chr_ram |-> (chr_banks = 0),
                  prg_rom |-> prg.bytes, prg_fill |-> 0, prg_len |-> prg.len,
                  chr_mem |-> chr.bytes, chr_len |-> chr.len]]

\* the image is parsed whatever its first four bytes are
RomInitAnyMagic(data) == ParseRom(data)

\* ROM.__init__: [ok, rom] or [ok, error]
ROM_init(data) == IF ~HasMagic(data) THEN Raise("ValueError") ELSE ParseRom(data)

\* the index of prg_rom that CPU.read uses for addr in $8000..$FFFF
PrgIndex(r, addr) == IF r.prg_banks = 1 THEN (addr - 32768) % 16384 ELSE addr - 32768

\* NES.__init__ on a file image: [ok, s] or [ok, error].  ROM(rom_data) may
\* raise; CPU.reset then reads the word at $FFFC from prg_rom, which raises
\* IndexError when the parsed PRG ROM is too short to hold it.
NES_init(rom_data) ==
    LET Built(r) ==
            IF ~r.ok THEN r
            ELSE IF PrgIndex(r.rom, 65533) >= r.rom.prg_len THEN Raise("IndexError")
            ELSE [ok |-> TRUE, s |-> NesInit(r.rom)]
    IN  Built(ROM_init(rom_data))
(***************************** observations ********************************)
\* the position of the PPU in dots since power-on
FrameDots == PPU_CYCLES_PER_SCANLINE * SCANLINES_PER_FRAME
PpuPos(p) == p.frame_count * FrameDots + (p.scanline + 1) * PPU_CYCLES_PER_SCANLINE + p.cycle

\* does a run of n dots that starts at the position of p process the dot
\* (scanline, cycle)?
Processes(p, n, scanline, cycle) ==
    LET from == (p.scanline + 1) * PPU_CYCLES_PER_SCANLINE + p.cycle
        to == (scanline + 1) * PPU_CYCLES_PER_SCANLINE + cycle
    IN  ((to - from) % FrameDots) < n

\* obs records what the calls made so far did:
\*   calls, fetches   CPU.step calls / calls that fetched an opcode
\*   ret_sum          sum of the values CPU.step returned
\*   op_cycles        sum of total_op_cycles of the executed instructions
\*   last             the outcome of the latest CPU.step call
\*   resets           CPU.reset calls made after construction
\*   since_reset      CPU.step calls made since the latest CPU.reset
\*   nmi              the latest loop iteration invoked CPU.nmi
\*   vbl              its dots processed scanline 241, dot 1
\*   unknown_at       calls count when an unknown opcode was first fetched, or -1
\*   pos0, fb0        PPU position and set_at count when step_frame was entered
\*   ops, bus         bus accesses made by the host, and the latest of them
\*   dma              the latest instruction that stored to $4014 (see ObsDma)
\*   log              the accesses a host made to the I/O ports, oldest first
\*   ints             CPU.nmi and CPU.irq calls made by the host
\*   load             the file image given to NES(...) and the exception raised
\*   loaded           the byte the latest read of $2007 fetched from PPU memory
\*                    into the read buffer, or -1 before the first such read
\*   shift            the strobe writes and controller reads a host made (see
\*                    ShiftWrite, ShiftRead)
\*   fills, evals     counters of a host's set-up runs and of its direct
\*                    calls, as the actions that count with them say
NoStep == [ret |-> 0, fetched |-> FALSE, unknown |-> FALSE, opcode |-> 0, at |-> 0]
NoBus == [kind |-> "none", addr |-> 0, val |-> 0]
NoLoad == [tried |-> FALSE, error |-> "none", data |-> [len |-> 0, bytes |-> <<>>]]
NoShift == [phase |-> "none", reads |-> [i \in {1, 2} |-> 0], updates |-> 0]
NoDma == [pending |-> FALSE, from |-> 0, own |-> 0, odd |-> 0, pos |-> 0,
          stall |-> -1, dots |-> 0]

Obs0(s) ==
    [calls |-> 0, fetches |-> 0, ret_sum |-> 0, op_cycles |-> 0, last |-> NoStep,
     resets |-> 0, since_reset |-> 0,
     nmi |-> FALSE, vbl |-> FALSE, unknown_at |-> -1,
     pos0 |-> PpuPos(s.ppu), fb0 |-> s.ppu.fb_set_at,
     ops |-> 0, bus |-> NoBus, dma |-> NoDma, log |-> <<>>,
     ints |-> 0, load |-> NoLoad, shift |-> NoShift, loaded |-> -1,
     fills |-> 0, evals |-> 0]

ObsStep(o, st) ==
    [o EXCEPT !.calls = @ + 1,
              !.since_reset = @ + 1,
              !.fetches = IF st.fetched THEN @ + 1 ELSE @,
              !.ret_sum = @ + st.ret,
              !.op_cycles = IF st.fetched /\ ~st.unknown THEN @ + st.ret ELSE @,
              !.last = [ret |-> st.ret, fetched |-> st.fetched, unknown |-> st.unknown,
                        opcode |-> st.opcode, at |-> st.at],
              !.unknown_at = IF st.unknown /\ @ = -1 THEN o.calls + 1 ELSE @]

\* the byte CPU.read returns for an address of work RAM or PRG ROM
Peek(s, addr) ==
    IF addr < 8192 THEN Get(s.cpu.ram, addr % 2048)
    ELSE IF addr < 32768 THEN 0
    ELSE IF s.rom.prg_banks = 1 THEN PrgAt(s.rom, (addr - 32768) % 16384)
    ELSE PrgAt(s.rom, addr - 32768)

\* the operations that call CPU.write with the effective address: sta, stx,
\* sty (lines 253-255), inc, dec (lines 284-285) and _shift_mem (line 295)
MemoryWriters ==
    {"sta", "stx", "sty", "inc", "dec", "asl_mem", "lsr_mem", "rol_mem", "ror_mem"}

\* did the CPU.step call st call CPU.write with address $4014, which runs
\* PPU.oam_dma (line 213)?  The operations write to the effective address of
\* the instruction; the stack pushes write to page 1.
StoresTo4014(st) ==
    /\ st.fetched
    /\ ~st.unknown
    /\ opcodes[st.opcode].op \in MemoryWriters
    /\ st.eff_addr % 65536 = 16404

\* bookkeeping of OAM DMA instructions for a CPU.step call st made on machine
\* s with the PPU at position pos, o being the record before the call (a call
\* that fetches was not preceded by CPU.nmi, which leaves 7 cycles to burn):
\*   pending   a store to $4014 was executed and no opcode was fetched since
\*   from, pos cycles accumulated and PPU position when it was fetched
\*   own, odd  the cycles it returned; total_cycles % 2 when it was fetched
\*   stall     cycles accumulated between its return and the next fetch
\*   dots      dots run between its fetch and the next fetch
ObsDma(o, s, st, pos) ==
    LET closed == IF st.fetched /\ o.dma.pending
                  THEN [o.dma EXCEPT !.pending = FALSE,
                                     !.stall = o.ret_sum - o.dma.from - o.dma.own,
                                     !.dots = pos - o.dma.pos]
                  ELSE o.dma
    IN  IF StoresTo4014(st)
        THEN [closed EXCEPT !.pending = TRUE, !.from = o.ret_sum, !.own = st.ret,
                            !.odd = s.cpu.total_cycles % 2, !.pos = pos]
        ELSE closed

(****************************** NES.step_frame *****************************)
\* the for loop of step_frame: n calls of PPU.step_ppu, the first n \div 2 of
\* them and then the others
RECURSIVE RunPpu(_, _)
RunPpu(s, n) ==
    LET Rest(s1) == IF Evaluated(s1) THEN RunPpu(s1, n - (n \div 2)) ELSE s1
    IN  IF n <= 0 THEN s
        ELSE IF n = 1 THEN StepPpu(s)
        ELSE Rest(RunPpu(s, n \div 2))

\* the request is dropped and CPU.nmi is not called
DeliverNmiDropped(s) == [s EXCEPT !.ppu.nmi_output = FALSE]

\* the NMI check at the head of the loop body
DeliverNmi(s) ==
    IF s.ppu.nmi_output THEN CpuNmi([s EXCEPT !.ppu.nmi_output = FALSE]) ELSE s

\* one dot for each CPU cycle
DotsForOnePerCycle(cpu_cycles) == cpu_cycles

\* the dots run for a CPU.step call that returned cpu_cycles
DotsFor(cpu_cycles) == cpu_cycles * 3

\* bounds of the model
MaxFrames == 1
MaxDriftFrames == 21
MaxCalls == 14
MaxResets == 1
MaxBusOps == 3
Bytes == 0..255

\* host calls step_frame, at most max times: line 743
StepFrameCallUpTo(max) ==
    /\ nes.at = "idle"
    /\ nes.frames < max
    /\ nes' = [nes EXCEPT !.at = "loop", !.total_cpu_cycles_this_frame = 0]
    /\ obs' = [obs EXCEPT !.pos0 = PpuPos(ppu), !.fb0 = ppu.fb_set_at]
    /\ UNCHANGED <<cpu, ppu, pads, rom>>

StepFrameCall == StepFrameCallUpTo(MaxFrames)

\* one iteration of the while loop: lines 746-753
StepFrameLoop ==
    /\ nes.at = "loop"
    /\ nes.total_cpu_cycles_this_frame < target_cycles
    /\ LET Stepped(st) ==
               /\ Becomes(RunPpu(st.s, DotsFor(st.ret)))
               /\ nes' = [nes EXCEPT !.total_cpu_cycles_this_frame = @ + st.ret]
               /\ obs' = [ObsStep(obs, st) EXCEPT
                            !.nmi = ppu.nmi_output,
                            !.dma = ObsDma(obs, M, st, PpuPos(ppu)),
                            !.vbl = Processes(st.s.ppu, DotsFor(st.ret),
                                              VBLANK_SCANLINE_START, 1)]
       IN  Stepped(CpuStep(DeliverNmi(M)))

\* the loop ends and step_frame returns: lines 746, 755
StepFrameReturn ==
    /\ nes.at = "loop"
    /\ nes.total_cpu_cycles_this_frame >= target_cycles
    /\ nes' = [nes EXCEPT !.at = "idle", !.frames = @ + 1]
    /\ UNCHANGED <<cpu, ppu, pads, rom, obs>>

\* the state after NES.__init__ for one of the images
InitWith(roms) ==
    LET Built(s) ==
            /\ cpu = s.cpu
            /\ ppu = s.ppu
            /\ pads = s.pads
            /\ nes = [at |-> "idle", frames |-> 0, total_cpu_cycles_this_frame |-> 0]
            /\ obs = Obs0(s)
    IN  /\ rom \in roms
        /\ Built(NesInit(rom))

Roms == {SampleRom, DmaRom}

Init == InitWith(Roms)

Next == StepFrameCall \/ StepFrameLoop \/ StepFrameReturn

Spec == Init /\ [][Next]_vars

\* the largest value CPU.step returns: 7 base cycles (BRK, the absolute,X
\* read-modify-write instructions); an instruction that adds cycles to its
\* base cycles reaches at most 6
max_op_cycles == 7

\* what a pass of the loop, or the return, does to step_frame's own variables
StepFrameAdvance ==
    /\ nes.at = "loop"
    /\ nes' \in {[nes EXCEPT !.total_cpu_cycles_this_frame = @ + k] : k \in 1..max_op_cycles}
                \cup {[nes EXCEPT !.at = "idle", !.frames = @ + 1]}

\* step_frame is straight-line code around a loop whose body always runs to
\* its end: a call that was entered keeps advancing
SpecFair == Spec /\ WF_nes(StepFrameAdvance)

(*************** step_frame on the branch test cartridge *******************)
InitBranch == InitWith({BranchRom})

SpecBranch == InitBranch /\ [][Next]_vars

(*************** step_frame called over many frames ************************)
StepFrameCallDrift == StepFrameCallUpTo(MaxDriftFrames)

InitDrift == InitWith({DriftRom})

NextDrift == StepFrameCallDrift \/ StepFrameLoop \/ StepFrameReturn

SpecDrift == InitDrift /\ [][NextDrift]_vars

(********************** CPU.step called on its own *************************)
\* a host that steps the CPU alone, one CPU.step call at a time
CpuStepCall ==
    /\ obs.calls < MaxCalls
    /\ LET Stepped(st) ==
               /\ Becomes(st.s)
               /\ obs' = [ObsStep(obs, st) EXCEPT !.nmi = FALSE, !.vbl = FALSE]
       IN  Stepped(CpuStep(M))
    /\ UNCHANGED nes

\* the host calls CPU.reset
CpuResetCall ==
    /\ obs.resets < MaxResets
    /\ Becomes(CpuReset(M))
    /\ obs' = [obs EXCEPT !.resets = @ + 1, !.since_reset = 0]
    /\ UNCHANGED nes

VectorLo == {0, 52, 255}
VectorHi == {0, 18, 128, 192, 255}

CpuRoms == {LdaStaRom(v) : v \in Bytes} \cup {VectorRom(lo, hi) : lo \in VectorLo, hi \in VectorHi}

InitCpu == InitWith(CpuRoms)

NextCpu == CpuStepCall \/ CpuResetCall

SpecCpu == InitCpu /\ [][NextCpu]_vars

(******************* the CPU bus driven access by access *******************)
BusWriteAddrs == {512, 2815, 8195, 16404}
BusReadAddrs == {767, 8196}
BusVals == {2, 3, 128, 255}

\* a host that calls CPU.write
BusWrite ==
    /\ obs.ops < MaxBusOps
    /\ \E addr \in BusWriteAddrs, value \in BusVals :
          /\ Becomes(CpuWrite(M, addr, value))
          /\ obs' = [obs EXCEPT !.ops = @ + 1,
                                !.bus = [kind |-> "write", addr |-> addr, val |-> value]]
    /\ UNCHANGED nes

\* a host that calls CPU.read
BusRead ==
    /\ obs.ops < MaxBusOps
    /\ \E addr \in BusReadAddrs :
          LET Read(r) ==
                 /\ Becomes(r.s)
                 /\ obs' = [obs EXCEPT !.ops = @ + 1,
                                       !.bus = [kind |-> "read", addr |-> addr, val |-> r.v]]
          IN  Read(CpuRead(M, addr))
    /\ UNCHANGED nes

InitBus == InitWith({DmaRom})

NextBus == BusWrite \/ BusRead

SpecBus == InitBus /\ [][NextBus]_vars

(************** the PPU register window driven access by access ************)
\* $2005, $2006, $2007
IoWriteAddrs == {8197, 8198, 8199}
\* $2002, its mirror $3FFA, and $2007
IoReadAddrs == {8194, 16378, 8199}
IoVals == {36, 165}
MaxIoOps == 4

IoDone(op) == [obs EXCEPT !.ops = @ + 1, !.bus = op, !.log = Append(@, op)]

\* a host that calls CPU.write on a PPU register
IoWrite ==
    /\ obs.ops < MaxIoOps
    /\ \E addr \in IoWriteAddrs, value \in IoVals :
          /\ Becomes(CpuWrite(M, addr, value))
          /\ obs' = IoDone([kind |-> "write", addr |-> addr, val |-> value])
    /\ UNCHANGED nes

\* a host that calls CPU.read on a PPU register
IoRead ==
    /\ obs.ops < MaxIoOps
    /\ \E addr \in IoReadAddrs :
          LET Read(r) ==
                 /\ Becomes(r.s)
                 /\ obs' = IoDone([kind |-> "read", addr |-> addr, val |-> r.v])
          IN  Read(CpuRead(M, addr))
    /\ UNCHANGED nes

\* a host that calls PPU.step_ppu once
IoDot ==
    /\ obs.ops < MaxIoOps
    /\ Becomes(StepPpu(M))
    /\ obs' = IoDone([kind |-> "dot", addr |-> 0, val |-> 0])
    /\ UNCHANGED nes

InitIo == InitWith(Roms)

NextIo == IoWrite \/ IoRead \/ IoDot

SpecIo == InitIo /\ [][NextIo]_vars

(************ PPU memory reached through $2006 / $2007, and ROM ************)
\* $2006, $2007 and the first PRG ROM address
MemWriteAddrs == {8198, 8199, 32768}
\* $2002, $2007
MemReadAddrs == {8194, 8199}
MemVals == {0, 16, 63, 165}
MaxMemOps == 4

\* a host that calls CPU.write
MemWrite ==
    /\ obs.ops < MaxMemOps
    /\ \E addr \in MemWriteAddrs, value \in MemVals :
          /\ Becomes(CpuWrite(M, addr, value))
          /\ obs' = [obs EXCEPT !.ops = @ + 1,
                                !.bus = [kind |-> "write", addr |-> addr, val |-> value]]
    /\ UNCHANGED nes

\* a host that calls CPU.read
MemRead ==
    /\ obs.ops < MaxMemOps
    /\ \E addr \in MemReadAddrs :
          LET Read(r) ==
                 /\ Becomes(r.s)
                 /\ obs' = [obs EXCEPT
                              !.ops = @ + 1,
                              !.bus = [kind |-> "read", addr |-> addr, val |-> r.v],
                              !.loaded = IF addr = 8199
                                         THEN ReadPpuMemory(M, ppu.vram_addr_v) ELSE @]
          IN  Read(CpuRead(M, addr))
    /\ UNCHANGED nes

InitMem == InitWith(Roms)

NextMem == MemWrite \/ MemRead

SpecMem == InitMem /\ [][NextMem]_vars

(********************* PPU.step_ppu called dot by dot **********************)
\* one frame, one scanline and a few dots more
MaxDots == 89690
\* PPUMASK values the host may set before the first dot: background and
\* sprites shown, with and without the left column
DotMasks == {24, 30}

\* the host writes PPUMASK before it starts the PPU
DotMaskWrite ==
    /\ obs.ops = 0
    /\ ppu.ppumask = 0
    /\ \E value \in DotMasks : Becomes(CpuWrite(M, 8193, value))
    /\ UNCHANGED <<nes, obs>>

\* the host calls PPU.step_ppu once; obs.ops counts the calls
DotStep ==
    /\ obs.ops < MaxDots
    /\ Becomes(StepPpu(M))
    /\ obs' = [obs EXCEPT !.ops = @ + 1]
    /\ UNCHANGED nes

InitDots == InitWith({SampleRom})

NextDots == DotMaskWrite \/ DotStep

SpecDots == InitDots /\ [][NextDots]_vars

(*********************** NES(rom_data) called by a host ********************)
\* an iNES file: magic, the four header bytes that follow it, eight zero
\* bytes and body more bytes.  The body is zero but for LDA #$11 at offset 16,
\* LDX #$22 at offset 528 and the high byte $80 of the reset vector, placed
\* where CPU.reset reads it when PRG ROM starts at prg_start.
INesFile(magic, prg_banks, chr_banks, flags6, flags7, body) ==
    LET prg_start == 16 + (IF Bit(flags6, 2) = 1 THEN 512 ELSE 0)
        vector == prg_start + (IF prg_banks = 1 THEN 16381 ELSE 32765)
        all == At(0, magic \o <<prg_banks, chr_banks, flags6, flags7>>)
               @@ At(16, <<169, 17>>) @@ At(528, <<162, 34>>) @@ (vector :> 128)
    IN  [len |-> 16 + body,
         bytes |-> [i \in {k \in DOMAIN all : k < 16 + body} |-> all[i]]]

\* the bytes an image with this header declares after the header
Declared(prg_banks, chr_banks, flags6) ==
    (IF Bit(flags6, 2) = 1 THEN 512 ELSE 0) + 16384 * prg_banks + 8192 * chr_banks

Magics == {Magic, <<78, 69, 83, 0>>, <<77, 90, 144, 0>>}
PrgBanks == {1, 2, 3}
ChrBanks == {0, 1, 2}
Flags6 == {0, 1, 4, 16, 52}
Flags7 == {0, 8, 16}
\* bytes missing at the end of the file (-16: a file with 16 bytes to spare)
Missing == {-16, 0, 1, 8192, 16384}
ShortLens == {0, 3, 4, 7, 8, 15}
MaxLoadCalls == 9

\* files with a whole header, and prefixes of a well-formed file
Files ==
    {INesFile(mg, p, c, f6, f7,
              IF Declared(p, c, f6) > ms THEN Declared(p, c, f6) - ms ELSE 0) :
        mg \in Magics, p \in PrgBanks, c \in ChrBanks, f6 \in Flags6, f7 \in Flags7,
        ms \in Missing}
    \cup {Slice(INesFile(Magic, 1, 1, 0, 0, 24576), 0, n) : n \in ShortLens}

\* no NES object exists: the variables hold the blank records
NoRom == RomImage(0, 0, 0, <<>>, 0, <<>>)
NoMachine == Blank(NoRom)

\* the host calls NES(rom_data): lines 733-740; an exception leaves no object
NesNewCall ==
    /\ nes.at = "unbuilt"
    /\ \E data \in Files :
          LET Outcome(r) ==
                 IF r.ok
                 THEN /\ Becomes(r.s)
                      /\ nes' = [nes EXCEPT !.at = "idle"]
                      /\ obs' = [Obs0(r.s) EXCEPT
                                   !.load = [tried |-> TRUE, error |-> "none", data |-> data]]
                 ELSE /\ UNCHANGED <<cpu, ppu, pads, rom>>
                      /\ nes' = [nes EXCEPT !.at = "failed"]
                      /\ obs' = [obs EXCEPT
                                   !.load = [tried |-> TRUE, error |-> r.error, data |-> data]]
          IN  Outcome(NES_init(data))

\* the host steps the CPU of the object it got
LoadedCpuStep ==
    /\ nes.at = "idle"
    /\ obs.calls < MaxLoadCalls
    /\ LET Stepped(st) ==
               /\ Becomes(st.s)
               /\ obs' = [ObsStep(obs, st) EXCEPT !.nmi = FALSE, !.vbl = FALSE]
       IN  Stepped(CpuStep(M))
    /\ UNCHANGED nes

\* CPU.read raises IndexError: for the address folded to 16 bits (line 191),
\* prg_rom[...] with an index beyond the bytes the loader sliced out of the
\* file, or a read of $2007 whose read_ppu_memory raises it (line 383)
ReadFaults(s, a0) ==
    LET addr == a0 % 65536
    IN  \/ addr >= 32768 /\ PrgIndex(s.rom, addr) >= s.rom.prg_len
        \/ /\ 8192 <= addr /\ addr < 16384 /\ addr % 8 = 7
           /\ PpuReadFaults(s, s.ppu.vram_addr_v)

\* -57337 and -1, which CPU.read folds to $2007 and $FFFF; $0000, $2002,
\* $2007, $4000, $4015, $5000, $6000, $7FFF, and PRG addresses
LoadReadAddrs == {-57337, -1, 0, 8194, 8199, 16384, 16405, 20480, 24576, 32767,
                  32768, 32769, 49149, 49151, 49152, 49153, 65533, 65535}
MaxLoadReads == 1

\* the host calls cpu.read on the object it got
LoadedCpuRead ==
    /\ nes.at = "idle"
    /\ obs.ops < MaxLoadReads
    /\ \E addr \in LoadReadAddrs :
          IF ReadFaults(M, addr)
          THEN /\ obs' = [obs EXCEPT !.ops = @ + 1,
                                     !.bus = [kind |-> "fault", addr |-> addr, val |-> 0]]
               /\ UNCHANGED <<cpu, ppu, pads, rom>>
          ELSE LET Read(r) ==
                      /\ Becomes(r.s)
                      /\ obs' = [obs EXCEPT !.ops = @ + 1,
                                            !.bus = [kind |-> "read", addr |-> addr, val |-> r.v]]
               IN  Read(CpuRead(M, addr))
    /\ UNCHANGED nes

\* pattern addresses $0000, $0010, $1FFF, the nametable byte $2000 and its
\* mirror $3000, the palette byte $3F00
LoadPpuAddrs == {0, 16, 8191, 8192, 12288, 16128}

\* the host calls ppu.read_ppu_memory on the object it got
LoadedPpuRead ==
    /\ nes.at = "idle"
    /\ obs.ops < MaxLoadReads
    /\ \E addr \in LoadPpuAddrs :
          obs' = [obs EXCEPT
                    !.ops = @ + 1,
                    !.bus = IF PpuReadFaults(M, addr)
                            THEN [kind |-> "ppu fault", addr |-> addr, val |-> 0]
                            ELSE [kind |-> "ppu read", addr |-> addr,
                                  val |-> ReadPpuMemory(M, addr)]]
    /\ UNCHANGED <<cpu, ppu, pads, rom, nes>>

InitLoad ==
    /\ cpu = NoMachine.cpu
    /\ ppu = NoMachine.ppu
    /\ pads = NoMachine.pads
    /\ rom = NoMachine.rom
    /\ nes = [at |-> "unbuilt", frames |-> 0, total_cpu_cycles_this_frame |-> 0]
    /\ obs = Obs0(NoMachine)

NextLoad == NesNewCall \/ LoadedCpuStep \/ LoadedCpuRead \/ LoadedPpuRead

SpecLoad == InitLoad /\ [][NextLoad]_vars

(**************** the status register under PLP, RTI, BRK ******************)
MaxFlagCalls == 37
MaxInterrupts == 1

\* the host calls CPU.step
FlagStepCall ==
    /\ obs.calls < MaxFlagCalls
    /\ LET Stepped(st) ==
               /\ Becomes(st.s)
               /\ obs' = [ObsStep(obs, st) EXCEPT !.nmi = FALSE, !.vbl = FALSE]
       IN  Stepped(CpuStep(M))
    /\ UNCHANGED nes

\* the host calls CPU.nmi between two instructions
FlagNmiCall ==
    /\ obs.ints < MaxInterrupts
    /\ cpu.cycles_remaining = 0
    /\ Becomes(CpuNmi(M))
    /\ obs' = [obs EXCEPT !.ints = @ + 1, !.nmi = TRUE]
    /\ UNCHANGED nes

\* the host calls CPU.irq between two instructions
FlagIrqCall ==
    /\ obs.ints < MaxInterrupts
    /\ cpu.cycles_remaining = 0
    /\ Becomes(CpuIrq(M))
    /\ obs' = [obs EXCEPT !.ints = @ + 1]
    /\ UNCHANGED nes

FlagRoms == {FlagRom(v) : v \in Bytes}

InitFlags == InitWith(FlagRoms)

NextFlags == FlagStepCall \/ FlagNmiCall \/ FlagIrqCall

SpecFlags == InitFlags /\ [][NextFlags]_vars

(******************* the controller ports driven by a host *****************)
\* the controller a port address reads: $4016 -> 1, $4017 -> 2
PadOf(addr) == addr - 16405

PadVals == {0, 1, 2, 3}
\* $4016, $4017
PadReadAddrs == {16406, 16407}
\* key_map entries 0 (button A) and 1 (button B)
PadEvents == {<<>>, <<[type |-> "KEYDOWN", key |-> 0]>>, <<[type |-> "KEYUP", key |-> 0]>>,
              <<[type |-> "KEYDOWN", key |-> 1]>>}
PadKeys == {{}, {0}}
MaxPadOps == 4

\* a host that calls CPU.write on $4016
PadWrite ==
    /\ obs.ops < MaxPadOps
    /\ \E value \in PadVals :
          /\ Becomes(CpuWrite(M, 16406, value))
          /\ obs' = IoDone([kind |-> "write", addr |-> 16406, val |-> value])
    /\ UNCHANGED nes

\* a host that calls CPU.read on a controller port
PadRead ==
    /\ obs.ops < MaxPadOps
    /\ \E addr \in PadReadAddrs :
          LET Read(r) ==
                 /\ Becomes(r.s)
                 /\ obs' = IoDone([kind |-> "read", addr |-> addr, val |-> r.v])
          IN  Read(CpuRead(M, addr))
    /\ UNCHANGED nes

\* game_loop calls controller1.update_state: line 809
PadUpdate ==
    /\ obs.ops < MaxPadOps
    /\ \E events \in PadEvents, keys_pressed \in PadKeys :
          /\ pads' = [pads EXCEPT ![1] = UpdateState(@, events, keys_pressed)]
          /\ obs' = IoDone([kind |-> "update", addr |-> 0, val |-> 0])
    /\ UNCHANGED <<cpu, ppu, rom, nes>>

InitPad == InitWith({SampleRom})

NextPad == PadWrite \/ PadRead \/ PadUpdate

SpecPad == InitPad /\ [][NextPad]_vars

(**************** the controllers read out after a strobe ******************)
\* obs.shift follows the strobe as the host drives it:
\*   phase    "high" after a write to $4016 with bit 0 set, "low" after a write
\*            with bit 0 clear that followed it, "none" before the first strobe
\*   reads    reads made of each controller since the phase became "low"
\*   updates  update_state calls made
MaxPadReads == 10
MaxPadUpdates == 2
ShiftVals == {0, 1}
\* one key of key_map goes down or up
ShiftEvents == {<<[type |-> t, key |-> k]>> : t \in {"KEYDOWN", "KEYUP"}, k \in 0..7}

\* a host that writes the strobe to $4016
ShiftWrite ==
    /\ \E value \in ShiftVals :
          /\ Becomes(CpuWrite(M, 16406, value))
          /\ obs' = [obs EXCEPT
                       !.bus = [kind |-> "write", addr |-> 16406, val |-> value],
                       !.shift.phase = IF value % 2 = 1 THEN "high"
                                       ELSE IF @ = "high" THEN "low" ELSE @,
                       !.shift.reads = IF value % 2 = 1 THEN [i \in {1, 2} |-> 0] ELSE @]
    /\ UNCHANGED nes

\* a host that reads a controller port
ShiftRead ==
    /\ \E addr \in PadReadAddrs :
          /\ obs.shift.reads[PadOf(addr)] < MaxPadReads
          /\ LET Read(r) ==
                     /\ Becomes(r.s)
                     /\ obs' = [obs EXCEPT
                                  !.bus = [kind |-> "read", addr |-> addr, val |-> r.v],
                                  !.shift.reads[PadOf(addr)] =
                                      IF obs.shift.phase = "low" THEN @ + 1 ELSE @]
             IN  Read(CpuRead(M, addr))
    /\ UNCHANGED nes

\* game_loop calls controller1.update_state with one key event: line 809
ShiftUpdate ==
    /\ obs.shift.updates < MaxPadUpdates
    /\ \E events \in ShiftEvents :
          /\ pads' = [pads EXCEPT ![1] = UpdateState(@, events, {})]
          /\ obs' = [obs EXCEPT !.bus = [kind |-> "update", addr |-> 0, val |-> 0],
                                !.shift.updates = @ + 1]
    /\ UNCHANGED <<cpu, ppu, rom, nes>>

InitShift == InitWith({SampleRom})

NextShift == ShiftWrite \/ ShiftRead \/ ShiftUpdate

SpecShift == InitShift /\ [][NextShift]_vars

(**************** the stack under pushes, pops and NMI **********************)
MaxStackCalls == 60
MaxStackNmis == 1
StackTops == {0, 1, 253}
StackFlags == {0, 195}

\* the host calls CPU.step
StackStepCall ==
    /\ obs.calls < MaxStackCalls
    /\ LET Stepped(st) ==
               /\ Becomes(st.s)
               /\ obs' = ObsStep(obs, st)
       IN  Stepped(CpuStep(M))
    /\ UNCHANGED nes

\* the host calls CPU.nmi, at any point between two CPU.step calls
StackNmiCall ==
    /\ obs.ints < MaxStackNmis
    /\ Becomes(CpuNmi(M))
    /\ obs' = [obs EXCEPT !.ints = @ + 1]
    /\ UNCHANGED nes

InitStack == InitWith({StackRom(x, p) : x \in StackTops, p \in StackFlags})

NextStack == StackStepCall \/ StackNmiCall

SpecStack == InitStack /\ [][NextStack]_vars

(************ the PPU address registers under host register calls **********)
\* $2000 <- 3, 7; $2005 <- $7D, $FF; $2006 <- $24, $FF; $2007 <- $5A
RegWrites == {<<8192, 3>>, <<8192, 7>>, <<8197, 125>>, <<8197, 255>>,
              <<8198, 36>>, <<8198, 255>>, <<8199, 90>>}
\* $2002, $2007
RegReadAddrs == {8194, 8199}
MaxRegOps == 6

\* a host that calls CPU.write on a PPU register
RegWrite ==
    /\ obs.ops < MaxRegOps
    /\ \E w \in RegWrites :
          /\ Becomes(CpuWrite(M, w[1], w[2]))
          /\ obs' = [obs EXCEPT !.ops = @ + 1,
                                !.bus = [kind |-> "write", addr |-> w[1], val |-> w[2]]]
    /\ UNCHANGED nes

\* a host that calls CPU.read on a PPU register
RegRead ==
    /\ obs.ops < MaxRegOps
    /\ \E addr \in RegReadAddrs :
          LET Read(r) ==
                 /\ Becomes(r.s)
                 /\ obs' = [obs EXCEPT !.ops = @ + 1,
                                       !.bus = [kind |-> "read", addr |-> addr, val |-> r.v]]
          IN  Read(CpuRead(M, addr))
    /\ UNCHANGED nes

InitReg == InitWith({SampleRom})

NextReg == RegWrite \/ RegRead

SpecReg == InitReg /\ [][NextReg]_vars

(*********************** sprite evaluation on its own **********************)
MaxEvals == 1
MaxEvalFills == 1
MaxEvalDots == 2
\* targets that step_ppu requests (scanline + 1 at dot 257 of the scanlines
\* -1 .. 239): the first scanline, two late ones and the one after the last
EvalTargets == {0, 231, 239, 240}
\* PPUCTRL values: 8-row and 16-row sprites
EvalCtrls == {0, 32}

\* an OAM image of 64 entries [Y, tile, attributes, X]: the entries
\* first, first + stride, ... (count of them) have Y = y; of the others, every
\* third has Y = 240, every third Y = y - 9 and every third Y = y + 20; the
\* tile is the entry's index and X four times the index
OamImage(first, count, stride, y) ==
    [k \in 0..255 |->
        LET n == k \div 4
            chosen == /\ n >= first
                      /\ (n - first) % stride = 0
                      /\ (n - first) \div stride < count
        IN  IF k % 4 = 0
            THEN (IF chosen THEN y
                  ELSE IF n % 3 = 0 THEN 240
                  ELSE IF n % 3 = 1 THEN y - 9
                  ELSE y + 20)
            ELSE IF k % 4 = 1 THEN n
            ELSE IF k % 4 = 2 THEN 0
            ELSE (4 * n) % 256]

OamImages ==
    {OamImage(first, count, stride, y) :
        first \in {0, 3}, count \in {2, 8, 9}, stride \in {5}, y \in {231}}

\* the host loop "for b in image: cpu.write(0x2004, b)" over the bytes i..j,
\* in order of i, the range split in two halves
RECURSIVE OamWrites(_, _, _, _)
OamWrites(s, image, i, j) ==
    LET Upper(mid, s1) == IF Evaluated(s1) THEN OamWrites(s1, image, mid + 1, j) ELSE s1
        Halves(mid) == Upper(mid, OamWrites(s, image, i, mid))
    IN  IF i = j THEN CpuWrite(s, 8196, image[i]) ELSE Halves((i + j) \div 2)

\* a host that writes 0 to $2003 and then a whole OAM image through $2004
EvalFill ==
    /\ obs.fills < MaxEvalFills
    /\ \E image \in OamImages :
          Becomes(OamWrites(CpuWrite(M, 8195, 0), image, 0, 255))
    /\ obs' = [obs EXCEPT !.fills = @ + 1, !.bus = NoBus]
    /\ UNCHANGED nes

\* a host that writes PPUCTRL
EvalCtrl ==
    /\ \E value \in EvalCtrls :
          /\ ppu.ppuctrl # value
          /\ Becomes(CpuWrite(M, 8192, value))
    /\ obs' = [obs EXCEPT !.bus = NoBus]
    /\ UNCHANGED nes

\* a host that calls PPU.step_ppu once (the second call, at pre-render dot 1,
\* clears the sprite-overflow bit that PPU.reset leaves set)
EvalDot ==
    /\ obs.ops < MaxEvalDots
    /\ Becomes(StepPpu(M))
    /\ obs' = [obs EXCEPT !.ops = @ + 1, !.bus = NoBus]
    /\ UNCHANGED nes

\* PPU._evaluate_sprites_for_scanline(target), called as step_ppu calls it
EvalCall ==
    /\ obs.evals < MaxEvals
    /\ \E target \in EvalTargets :
          /\ Becomes(EvaluateSpritesForScanline(M, target))
          /\ obs' = [obs EXCEPT !.evals = @ + 1,
                                !.bus = [kind |-> "eval", addr |-> target, val |-> 0]]
    /\ UNCHANGED nes

InitEval == InitWith({SampleRom})

NextEval == EvalFill \/ EvalCtrl \/ EvalDot \/ EvalCall

SpecEval == InitEval /\ [][NextEval]_vars

(****************** sprite-zero hit on the first scanline ******************)
\* the pre-render line and scanline 0 up to its last pixel
MaxHitDots == 598
\* tiles of the first four nametable columns (tile 2 of the sample CHR is
\* opaque in every pixel, tile 0 is empty); the columns after them hold tile 0
HitRows == {<<2, 2, 2, 2>>, <<0, 2, 0, 0>>, <<0, 0, 0, 0>>}
\* OAM entry 0 as [Y, tile, attributes, X]
HitSprites == {<<0, 2, 0, 0>>, <<0, 2, 0, 100>>, <<0, 0, 0, 8>>, <<100, 2, 0, 8>>}
\* PPUMASK: background and sprites with and without the left column, and
\* background alone
HitMasks == {24, 30, 14}

\* the host loop "for addr, value in ws: cpu.write(addr, value)" over the
\* writes i..j, in order of i, the range split in two halves
RECURSIVE HostWrites(_, _, _, _)
HostWrites(s, ws, i, j) ==
    LET Upper(mid, s1) == IF Evaluated(s1) THEN HostWrites(s1, ws, mid + 1, j) ELSE s1
        Halves(mid) == Upper(mid, HostWrites(s, ws, i, mid))
    IN  IF i = j THEN CpuWrite(s, ws[i][1], ws[i][2]) ELSE Halves((i + j) \div 2)

\* the writes of a host that puts four tiles at the start of nametable 0
\* ($2006 <- $20, $00, then $2007), sets the scroll origin ($2006 <- 0, 0),
\* stores OAM entry 0 ($2003 <- 0, then $2004) and turns rendering on ($2001)
HitProgram(row, sprite, mask) ==
    <<<<8198, 32>>, <<8198, 0>>,
      <<8199, row[1]>>, <<8199, row[2]>>, <<8199, row[3]>>, <<8199, row[4]>>,
      <<8198, 0>>, <<8198, 0>>,
      <<8195, 0>>,
      <<8196, sprite[1]>>, <<8196, sprite[2]>>, <<8196, sprite[3]>>, <<8196, sprite[4]>>,
      <<8193, mask>>>>

\* the host runs its set-up writes, once, before it starts the PPU
HitSetup ==
    /\ obs.fills = 0
    /\ \E row \in HitRows, sprite \in HitSprites, mask \in HitMasks :
          Becomes(HostWrites(M, HitProgram(row, sprite, mask), 1, 14))
    /\ obs' = [obs EXCEPT !.fills = 1]
    /\ UNCHANGED nes

\* the host calls PPU.step_ppu once; obs.ops counts the calls
HitDot ==
    /\ obs.fills = 1
    /\ obs.ops < MaxHitDots
    /\ Becomes(StepPpu(M))
    /\ obs' = [obs EXCEPT !.ops = @ + 1]
    /\ UNCHANGED nes

InitHit == InitWith({SampleRom})

NextHit == HitSetup \/ HitDot

SpecHit == InitHit /\ [][NextHit]_vars

(*********************** the vertical scroll increment *********************)
MaxScrollCalls == 3
\* second $2005 byte: fine Y 7, 6 and 0, the top two bits of coarse Y 3 and 0
ScrollYs == {255, 254, 7, 248}
\* $2006 low byte: the low three bits of coarse Y (5, 6, 7, 0) and coarse X
ScrollLows == {191, 197, 224, 31}
ScrollNts == {0, 1, 2, 3}
ScrollMasks == {0, 8, 16, 24}
ScrollXs == {0, 5}

\* the writes of a host that builds a 15-bit address in t ($2005 twice,
\* $2000 for the nametable bits), sets fine x with a third $2005 write and
\* copies t to v with the $2006 write that follows it, then writes PPUMASK
ScrollProgram(y, lo, nt, x, mask) ==
    <<<<8197, 0>>, <<8197, y>>, <<8192, nt>>, <<8197, x>>, <<8198, lo>>, <<8193, mask>>>>

\* the host runs its set-up writes, once
ScrollSetup ==
    /\ obs.fills = 0
    /\ \E y \in ScrollYs, lo \in ScrollLows, nt \in ScrollNts, x \in ScrollXs,
          mask \in ScrollMasks :
          Becomes(HostWrites(M, ScrollProgram(y, lo, nt, x, mask), 1, 6))
    /\ obs' = [obs EXCEPT !.fills = 1]
    /\ UNCHANGED nes

\* a host that calls PPU._increment_scroll_y()
ScrollCall ==
    /\ obs.fills = 1
    /\ obs.evals < MaxScrollCalls
    /\ Becomes(IncrementScrollY(M))
    /\ obs' = [obs EXCEPT !.evals = @ + 1,
                          !.bus = [kind |-> "scrolly", addr |-> 0, val |-> 0]]
    /\ UNCHANGED nes

InitScroll == InitWith({SampleRom})

NextScroll == ScrollSetup \/ ScrollCall

SpecScroll == InitScroll /\ [][NextScroll]_vars

(************************** the host's reset key ***************************)
MaxResetOps == 5
MaxResetNes == 2
ResetCtrls == {3, 132}
ResetMasks == {0, 30}
ResetReadAddrs == {8194, 8199}

\* the writes of a host that stores to the first and the last byte of work
\* RAM, writes PPUCTRL and the scroll, stores a byte at $2020 of the nametables
\* ($2006 twice, $2007), points v at it again, stores a byte at OAM offset 5
\* ($2003, $2004) and writes PPUMASK
ResetProgram(ctrl, mask) ==
    <<<<16, 171>>, <<2047, 205>>, <<8192, ctrl>>, <<8197, 125>>, <<8197, 94>>,
      <<8198, 32>>, <<8198, 32>>, <<8199, 90>>, <<8198, 32>>, <<8198, 32>>,
      <<8195, 5>>, <<8196, 119>>, <<8193, mask>>>>

\* the host runs its writes, once
ResetSetup ==
    /\ obs.fills = 0
    /\ \E ctrl \in ResetCtrls, mask \in ResetMasks :
          Becomes(HostWrites(M, ResetProgram(ctrl, mask), 1, 13))
    /\ obs' = [obs EXCEPT !.fills = 1, !.bus = NoBus]
    /\ UNCHANGED nes

\* the host calls CPU.step once
ResetStep ==
    /\ obs.ops < MaxResetOps
    /\ Becomes(CpuStep(M).s)
    /\ obs' = [obs EXCEPT !.ops = @ + 1, !.bus = NoBus]
    /\ UNCHANGED nes

\* the host calls PPU.step_ppu once
ResetDot ==
    /\ obs.ops < MaxResetOps
    /\ Becomes(StepPpu(M))
    /\ obs' = [obs EXCEPT !.ops = @ + 1, !.bus = NoBus]
    /\ UNCHANGED nes

\* the host reads $2002 or $2007
ResetRead ==
    /\ obs.ops < MaxResetOps
    /\ \E addr \in ResetReadAddrs :
          LET Read(r) ==
                 /\ Becomes(r.s)
                 /\ obs' = [obs EXCEPT !.ops = @ + 1,
                                       !.bus = [kind |-> "read", addr |-> addr, val |-> r.v]]
          IN  Read(CpuRead(M, addr))
    /\ UNCHANGED nes

\* EmulatorGUI.reset_nes: cpu.reset(), ppu.reset(), apu.reset() (which does
\* nothing), ppu.frame_count = 0
ResetNes ==
    /\ obs.resets < MaxResetNes
    /\ Becomes([PpuReset(CpuReset(M)) EXCEPT !.ppu.frame_count = 0])
    /\ obs' = [obs EXCEPT !.resets = @ + 1,
                          !.bus = [kind |-> "reset", addr |-> 0, val |-> 0]]
    /\ UNCHANGED nes

InitReset == InitWith({SampleRom})

NextReset == ResetSetup \/ ResetStep \/ ResetDot \/ ResetRead \/ ResetNes

SpecReset == InitReset /\ [][NextReset]_vars

(********************* NMI requests over two frames ************************)
MaxNmiDots == 4
MaxNmiAccesses == 2
MaxNmiFrames == 2
\* the lines before the VBlank line: pre-render and 240 visible ones
NmiFrameDots == 241 * PPU_CYCLES_PER_SCANLINE
NmiCtrls == {0, 128}

\* the host runs the PPU from the start of the pre-render line over 241
\* lines; obs.fills counts these runs
NmiFrame ==
    /\ obs.fills < MaxNmiFrames
    /\ ppu.scanline = -1 /\ ppu.cycle = 0
    /\ Becomes(RunPpu(M, NmiFrameDots))
    /\ obs' = [obs EXCEPT !.fills = @ + 1, !.bus = NoBus]
    /\ UNCHANGED nes

\* the host runs the PPU over one line of the vertical blank
NmiLine ==
    /\ ppu.scanline >= VISIBLE_SCANLINES
    /\ Becomes(RunPpu(M, PPU_CYCLES_PER_SCANLINE))
    /\ obs' = [obs EXCEPT !.bus = NoBus]
    /\ UNCHANGED nes

\* the host calls PPU.step_ppu once; obs.evals counts the calls
NmiDot ==
    /\ obs.evals < MaxNmiDots
    /\ Becomes(StepPpu(M))
    /\ obs' = [obs EXCEPT !.evals = @ + 1, !.bus = NoBus]
    /\ UNCHANGED nes

\* the host writes PPUCTRL; obs.ops counts the register accesses
NmiCtrlWrite ==
    /\ obs.ops < MaxNmiAccesses
    /\ \E value \in NmiCtrls :
          /\ Becomes(CpuWrite(M, 8192, value))
          /\ obs' = [obs EXCEPT !.ops = @ + 1,
                                !.bus = [kind |-> "write", addr |-> 8192, val |-> value]]
    /\ UNCHANGED nes

\* the host reads PPUSTATUS
NmiStatusRead ==
    /\ obs.ops < MaxNmiAccesses
    /\ LET Read(r) ==
              /\ Becomes(r.s)
              /\ obs' = [obs EXCEPT !.ops = @ + 1,
                                    !.bus = [kind |-> "read", addr |-> 8194, val |-> r.v]]
       IN  Read(CpuRead(M, 8194))
    /\ UNCHANGED nes

\* the NMI check at the head of step_frame's loop body, with a request pending
NmiTake ==
    /\ ppu.nmi_output
    /\ Becomes(DeliverNmi(M))
    /\ obs' = [obs EXCEPT !.ints = @ + 1, !.bus = NoBus]
    /\ UNCHANGED nes

InitNmi == InitWith({SampleRom})

NextNmi == NmiFrame \/ NmiLine \/ NmiDot \/ NmiCtrlWrite \/ NmiStatusRead \/ NmiTake

SpecNmi == InitNmi /\ [][NextNmi]_vars

(******************* the PPU stepped with rendering off ********************)
\* one frame and the pre-render line and first visible lines of the next
MaxIdleDots == 90400
MaxIdleAccesses == 1
\* PPUMASK with bits 3 and 4 clear and every other bit set
IdleMasks == {231}
IdleWrites == {<<8192, 1>>, <<8197, 11>>, <<8198, 5>>, <<8199, 60>>}

\* the writes of a host that sets the nametable bits, the scroll and the
\* address, leaving v = $2345, t = $2345 and fine x = 5, puts sprite 0 on
\* lines 0..7 and two sprites on lines 100..107, and writes PPUMASK
IdleProgram(mask) ==
    <<<<8192, 3>>, <<8197, 125>>, <<8197, 94>>, <<8198, 35>>, <<8198, 69>>,
      <<8195, 0>>, <<8196, 0>>, <<8196, 2>>, <<8196, 0>>, <<8196, 16>>,
      <<8196, 100>>, <<8196, 2>>, <<8196, 0>>, <<8196, 32>>,
      <<8196, 100>>, <<8196, 1>>, <<8196, 0>>, <<8196, 48>>,
      <<8193, mask>>>>

\* the host runs its set-up writes, once, before it starts the PPU
IdleSetup ==
    /\ obs.fills = 0
    /\ \E mask \in IdleMasks : Becomes(HostWrites(M, IdleProgram(mask), 1, 19))
    /\ obs' = [obs EXCEPT !.fills = 1]
    /\ UNCHANGED nes

\* the host calls PPU.step_ppu once; obs.ops counts the calls
IdleDot ==
    /\ obs.fills = 1
    /\ obs.ops < MaxIdleDots
    /\ Becomes(StepPpu(M))
    /\ obs' = [obs EXCEPT !.ops = @ + 1]
    /\ UNCHANGED nes

\* the host writes $2000, $2005, $2006 or $2007 between two dots; obs.evals
\* counts these writes
IdleWrite ==
    /\ obs.fills = 1
    /\ obs.evals < MaxIdleAccesses
    /\ \E w \in IdleWrites :
          /\ Becomes(CpuWrite(M, w[1], w[2]))
          /\ obs' = [obs EXCEPT !.evals = @ + 1]
    /\ UNCHANGED nes

InitIdle == InitWith({SampleRom})

NextIdle == IdleSetup \/ IdleDot \/ IdleWrite

SpecIdle == InitIdle /\ [][NextIdle]_vars

(************************ subroutine calls and returns *********************)
MaxJsrCalls == 70
JsrTops == {0, 1, 2, 3, 253, 255}

\* the calls that have not returned, innermost last, each as [p, sp]: the
\* address of the JSR and the stack pointer it found.  A JSR adds an entry; an
\* RTS fetched with the stack pointer two below the sp of the last entry
\* removes it.
JsrLog(st) ==
    IF st.fetched /\ st.opcode = 32
    THEN Append(obs.log, [p |-> st.at, sp |-> cpu.sp])
    ELSE IF /\ st.fetched /\ st.opcode = 96 /\ obs.log # <<>>
            /\ cpu.sp = (obs.log[Len(obs.log)].sp - 2) % 256
    THEN SubSeq(obs.log, 1, Len(obs.log) - 1)
    ELSE obs.log

\* the host calls CPU.step
JsrStepCall ==
    /\ obs.calls < MaxJsrCalls
    /\ LET Stepped(st) ==
               /\ Becomes(st.s)
               /\ obs' = [ObsStep(obs, st) EXCEPT !.log = JsrLog(st)]
       IN  Stepped(CpuStep(M))
    /\ UNCHANGED nes

InitJsr == InitWith({JsrRom(x) : x \in JsrTops})

NextJsr == JsrStepCall

SpecJsr == InitJsr /\ [][NextJsr]_vars
(******************************** claims ***********************************)
\* the opcode bytes of the documented 6502 instruction set (151 bytes)
OfficialOpcodes ==
    {
     0, 1, 5, 6, 8, 9, 10, 13, 14, 16, 17, 21, 22, 24, 25, 29,
     30, 32, 33, 36, 37, 38, 40, 41, 42, 44, 45, 46, 48, 49, 53, 54,
     56, 57, 61, 62, 64, 65, 69, 70, 72, 73, 74, 76, 77, 78, 80, 81,
     85, 86, 88, 89, 93, 94, 96, 97, 101, 102, 104, 105, 106, 108, 109, 110,
     112, 113, 117, 118, 120, 121, 125, 126, 129, 132, 133, 134, 136, 138, 140, 141,
     142, 144, 145, 148, 149, 150, 152, 153, 154, 157, 160, 161, 162, 164, 165, 166,
     168, 169, 170, 172, 173, 174, 176, 177, 180, 181, 182, 184, 185, 186, 188, 189,
     190, 192, 193, 196, 197, 198, 200, 201, 202, 204, 205, 206, 208, 209, 213, 214,
     216, 217, 221, 222, 224, 225, 228, 229, 230, 232, 233, 234, 236, 237, 238, 240,
     241, 245, 246, 248, 249, 253, 254}

\* the words at the NMI and reset vectors, as the CPU reads them
NmiVector == CpuRead(M, 65530).v + 256 * CpuRead(M, 65531).v
ResetVector == CpuRead(M, 65532).v + 256 * CpuRead(M, 65533).v

\* C1: from the entry of a step_frame call on, the PPU has advanced exactly
\* three dots for every CPU cycle the call has consumed
C1_ThreeDotsPerCycle ==
    PpuPos(ppu) - obs.pos0 = 3 * nes.total_cpu_cycles_this_frame

\* a step_frame call has returned, having consumed its cycles and run the PPU
\* for more than a whole frame of dots
C1_Witness ==
    /\ nes.at = "idle"
    /\ nes.frames > 0
    /\ nes.total_cpu_cycles_this_frame >= target_cycles
    /\ PpuPos(ppu) - obs.pos0 > FrameDots

\* C2: every CPU.step call fetches and executes one instruction, and the
\* returned values add up to the cycle counts of the executed instructions,
\* each counted once
C2_OneInstructionPerStep ==
    /\ obs.fetches = obs.calls
    /\ obs.ret_sum = obs.op_cycles

\* C3: when the dots of a loop pass process scanline 241 dot 1 with ctrl bit
\* 7 set, the NMI request is raised; and a loop pass that finds the request
\* calls CPU.nmi, which loads pc from $FFFA, before any opcode is fetched
C3_NmiBeforeNextFetch ==
    /\ (obs.vbl /\ Bit(ppu.ppuctrl, 7) = 1) => ppu.nmi_output
    /\ obs.nmi => (~obs.last.fetched /\ cpu.pc = NmiVector)

\* the loop pass after scanline 241 dot 1 found the request and entered the
\* handler of the sample program at $C100 without fetching
C3_Witness ==
    /\ obs.nmi
    /\ ~obs.last.fetched
    /\ cpu.pc = NmiVector
    /\ cpu.pc = 49408
    /\ ppu.scanline = VBLANK_SCANLINE_START

\* the dots from scanline 241 dot 2 to pre-render dot 1
InVBlank(p) ==
    \/ p.scanline = VBLANK_SCANLINE_START /\ p.cycle >= 2
    \/ p.scanline > VBLANK_SCANLINE_START
    \/ p.scanline = -1 /\ p.cycle <= 1

\* C4: status bit 7 is set when scanline 241 dot 1 has been processed, and is
\* never set outside the dots from there to pre-render dot 1
C4_VBlankIsStatusBit7 ==
    /\ obs.vbl => Bit(ppu.ppustatus, 7) = 1
    /\ ~InVBlank(ppu) => Bit(ppu.ppustatus, 7) = 0

\* C5: when a step_frame call has consumed its cycles, it has drawn exactly
\* 256 x 240 pixels, whatever the PPU position it started from
C5_FrameDraws61440 ==
    (nes.at = "loop" /\ nes.total_cpu_cycles_this_frame >= target_cycles)
        => ppu.fb_set_at - obs.fb0 = SCREEN_WIDTH * VISIBLE_SCANLINES

\* C6: right after CPU.reset, pc is the little-endian word at $FFFC/$FFFD,
\* sp is $FD and the I and U bits of status are set
C6_ResetState ==
    obs.since_reset = 0 =>
        /\ cpu.pc = ResetVector
        /\ cpu.sp = 253
        /\ Bit(cpu.status, 2) = 1
        /\ Bit(cpu.status, 5) = 1

\* the host has reset a CPU that had been stepping; its reset vector is $1234
C6_Witness ==
    /\ obs.resets > 0
    /\ obs.calls > 0
    /\ obs.since_reset = 0
    /\ cpu.pc = 4660
    /\ cpu.sp = 253

\* C7: two CPU.step calls after a reset onto A9 v 8D 00 20 the accumulator
\* holds v, Z and N reflect v, and PPUCTRL has received v
C7_LdaStaInTwoSteps ==
    LET v == Get(rom.prg_rom, 1)
    IN  (rom = LdaStaRom(v) /\ obs.since_reset = 2) =>
            /\ cpu.acc = v
            /\ (Bit(cpu.status, 1) = 1) <=> (v = 0)
            /\ Bit(cpu.status, 7) = Bit(v, 7)
            /\ ppu.ppuctrl = v

\* C8: once a byte without a dispatch entry has been fetched as an opcode, no
\* further CPU.step call is made: the fault ends step_frame
C8_UnknownOpcodeIsFatal ==
    obs.unknown_at # -1 => obs.calls = obs.unknown_at

\* C9: no byte of the documented 6502 instruction set is treated as an
\* unknown opcode
C9_OfficialOpcodesDecoded ==
    obs.last.unknown => obs.last.opcode \notin OfficialOpcodes

\* C10: a write of page P to $4014 stores byte i of the page, as the CPU
\* reads it, at OAM[(oamaddr + i) mod 256] for all 256 i, and leaves the
\* work RAM as it was
C10_OamDmaCopiesPage ==
    [][(obs'.ops # obs.ops /\ obs'.bus.kind = "write" /\ obs'.bus.addr = 16404)
          => /\ \A i \in 0..255 :
                    Get(ppu'.oam, (ppu.oamaddr + i) % 256)
                        = CpuRead(M, obs'.bus.val * 256 + i).v
             /\ cpu'.ram = cpu.ram]_vars

\* page $80 of the cartridge has been copied with oamaddr = 3: its first
\* bytes A2 00 8A are at OAM[3..5] and its last byte is at OAM[2]
C10_Witness ==
    /\ obs.bus.kind = "write"
    /\ obs.bus.addr = 16404
    /\ obs.bus.val = 128
    /\ ppu.oamaddr = 3
    /\ Get(ppu.oam, 3) = 162
    /\ Get(ppu.oam, 5) = 138
    /\ Get(ppu.oam, 2) = CpuRead(M, 33023).v

\* C11: an instruction that stores to $4014 is followed by a stall: between
\* its return and the next opcode fetch 513 cycles are consumed (514 when the
\* store happens on an odd cycle), and between the two fetches the PPU runs 3
\* dots for each cycle of the instruction and of the stall.
C11_OamDmaStallsCpu ==
    obs.dma.stall # -1 =>
        /\ obs.dma.stall = 513 + obs.dma.odd
        /\ obs.dma.dots = 3 * (obs.dma.own + 513 + obs.dma.odd)

\* the port accesses that read PPUSTATUS, at $2002 or any of its mirrors
ReadsStatus(op) ==
    op.kind = "read" /\ op.addr >= 8192 /\ op.addr < 16384 /\ op.addr % 8 = 2

\* the port accesses that write register reg_idx of the PPU
WritesRegister(op, reg_idx) ==
    op.kind = "write" /\ op.addr >= 8192 /\ op.addr < 16384 /\ op.addr % 8 = reg_idx

\* C12: a CPU read of $2002, at any mirror, leaves status bit 7 clear and the
\* write toggle clear, and a write to $2005 or $2006 that follows it is the
\* first write of its pair: $2005 sets coarse and fine X, $2006 sets the high
\* byte of t and leaves v alone, and either sets the toggle.
C12_StatusReadClearsToggle ==
    [][(obs'.ops # obs.ops) =>
         /\ ReadsStatus(obs'.bus) =>
               Bit(ppu'.ppustatus, 7) = 0 /\ ~ppu'.addr_latch_w
         /\ (ReadsStatus(obs.bus) /\ WritesRegister(obs'.bus, 5)) =>
               /\ ppu'.temp_vram_addr_t =
                      (ppu.temp_vram_addr_t \div 32) * 32 + (obs'.bus.val \div 8)
               /\ ppu'.fine_x_scroll = obs'.bus.val % 8
               /\ ppu'.addr_latch_w
         /\ (ReadsStatus(obs.bus) /\ WritesRegister(obs'.bus, 6)) =>
               /\ ppu'.temp_vram_addr_t =
                      (ppu.temp_vram_addr_t % 256) + (obs'.bus.val % 64) * 256
               /\ ppu'.vram_addr_v = ppu.vram_addr_v
               /\ ppu'.addr_latch_w]_vars

\* a first write to $2005, a read of the mirror $3FFA with the toggle set, and
\* a write to $2006 that was taken as a first write
C12_Witness ==
    /\ obs.log = <<[kind |-> "write", addr |-> 8197, val |-> 165],
                   [kind |-> "read", addr |-> 16378, val |-> 37],
                   [kind |-> "write", addr |-> 8198, val |-> 36]>>
    /\ ppu.temp_vram_addr_t = 36 * 256 + 20
    /\ ppu.vram_addr_v = 0
    /\ ppu.addr_latch_w

\* C13: of two consecutive reads of $2002, with no PPU dot and no register
\* write between them, the second returns the bits 0..6 the first returned.
C13_StatusReadTwice ==
    [][(obs'.ops # obs.ops /\ ReadsStatus(obs.bus) /\ ReadsStatus(obs'.bus)) =>
         obs'.bus.val % 128 = obs.bus.val % 128]_vars

\* $2002 read twice after a write of $A5: both reads return flag bit 5 and the
\* low five bits of the value written
C13_Witness ==
    /\ obs.log = <<[kind |-> "write", addr |-> 8197, val |-> 165],
                   [kind |-> "read", addr |-> 8194, val |-> 37],
                   [kind |-> "read", addr |-> 16378, val |-> 37]>>
    /\ ppu.ppustatus = 32

\* the four nametable quadrants $2000, $2400, $2800, $2C00
Quadrant(q) == 8192 + 1024 * q

\* C14: with header bit 0 = 1 (horizontal) $2000+o and $2400+o resolve to one
\* VRAM index and $2800+o and $2C00+o to one index in the other 1 KB bank; with
\* bit 0 = 0 (vertical) $2000+o pairs with $2800+o and $2400+o with $2C00+o;
\* for every offset o in 0..$3FF, and every index lies in 0..$7FF.
C14_NametableMirroring ==
    \A o \in 0..1023 :
        LET idx(q) == GetPhysicalVramIndex(M, Quadrant(q) + o)
            Paired(a, b, c, d) ==
                /\ idx(a) = idx(b)
                /\ idx(c) = idx(d)
                /\ idx(a) \div 1024 # idx(c) \div 1024
        IN  /\ \A q \in 0..3 : idx(q) \in 0..2047
            /\ IF rom.mirroring = 1 THEN Paired(0, 1, 2, 3) ELSE Paired(0, 2, 1, 3)

\* the offset of the first PRG byte in a file whose header byte 6 is flags6
PrgStart(flags6) == 16 + (IF Bit(flags6, 2) = 1 THEN 512 ELSE 0)

\* C15: for every image the loader accepts, PRG ROM has 16384 * prg_banks
\* bytes, CHR has 8192 * chr_banks bytes or is 8192 bytes of RAM when chr_banks
\* is 0, and PRG byte i is byte 16 + i of the file, or byte 528 + i when the
\* trainer bit is set.
C15_ParsedSizes ==
    nes.at = "idle" =>
        /\ rom.prg_len = 16384 * rom.prg_banks
        /\ IF rom.chr_banks = 0 THEN rom.chr_len = 8192 /\ rom.is_chr_ram
           ELSE rom.chr_len = 8192 * rom.chr_banks /\ ~rom.is_chr_ram
        /\ \A i \in {0, 1, 512, 513, 16381} :
              PrgAt(rom, i) = DataAt(obs.load.data, PrgStart(DataAt(obs.load.data, 6)) + i)

\* C16: an image whose first four bytes are not "NES\x1a" makes NES(...)
\* fail with ValueError, and no CPU, PPU or controller exists afterwards.
C16_BadMagicFails ==
    (obs.load.tried /\ ~HasMagic(obs.load.data)) =>
        /\ nes.at = "failed"
        /\ obs.load.error = "ValueError"
        /\ M = NoMachine

\* a complete one-bank image whose fourth byte is $00 was refused
C16_Witness ==
    /\ obs.load.tried
    /\ obs.load.data = INesFile(<<78, 69, 83, 0>>, 1, 1, 0, 0, 24576)
    /\ nes.at = "failed"
    /\ obs.load.error = "ValueError"
    /\ cpu = NoMachine.cpu /\ ppu = NoMachine.ppu /\ pads = NoMachine.pads

\* the file ends before the bytes its header declares
Truncated(d) ==
    \/ d.len < 16
    \/ d.len < 16 + Declared(DataAt(d, 4), DataAt(d, 5), DataAt(d, 6))

\* C17: an image with the magic whose header declares more PRG/CHR bytes than
\* the file holds makes NES(...) fail, and no system exists afterwards.
C17_TruncatedFails ==
    (obs.load.tried /\ HasMagic(obs.load.data) /\ Truncated(obs.load.data)) =>
        /\ nes.at = "failed"
        /\ obs.load.error # "none"
        /\ M = NoMachine

\* the mapper number of a header: (byte6 >> 4) | (byte7 & 0xF0)
MapperOf(d) == (DataAt(d, 6) \div 16) + 16 * (DataAt(d, 7) \div 16)

\* C18: an image with the magic whose mapper number is not 0 makes NES(...)
\* fail, and no system exists afterwards that would run it as NROM.
C18_UnsupportedMapperFails ==
    (obs.load.tried /\ HasMagic(obs.load.data) /\ obs.load.data.len >= 16
       /\ MapperOf(obs.load.data) # 0) =>
        /\ nes.at = "failed"
        /\ obs.load.error # "none"
        /\ M = NoMachine

\* C19: in every CPU state after reset, whatever PLP and RTI pull from the
\* stack and whatever interrupts are taken, bit 5 of the status register is 1.
C19_UnusedFlagSet == Bit(cpu.status, 5) = 1

\* RTI has pulled a status byte with bits 4 and 5 clear, after PLP had pulled
\* the same byte: B is clear, bit 5 is set, the other flags are those pulled
C19_Witness ==
    /\ rom = FlagRom(207)
    /\ obs.last.fetched /\ obs.last.opcode = 64 /\ obs.last.at = 32773
    /\ Get(cpu.ram, 509) = 207
    /\ cpu.status = 239

\* C20: while the strobe of a controller is high, every read of it returns in
\* bit 0 the state button A has at that moment and leaves the shift index at
\* 0; the index is 0 in every state with the strobe high.
C20_StrobeHighReadsA ==
    [][/\ \A i \in {1, 2} : pads'[i].strobe => pads'[i].index = 0
       /\ (obs'.ops # obs.ops /\ obs'.bus.kind = "read"
             /\ obs'.bus.addr \in {16406, 16407} /\ pads[PadOf(obs'.bus.addr)].strobe) =>
              /\ obs'.bus.val % 2 = (IF pads[PadOf(obs'.bus.addr)].buttons[1] THEN 1 ELSE 0)
              /\ pads'[PadOf(obs'.bus.addr)].index = 0
              /\ pads'[PadOf(obs'.bus.addr)].strobe]_vars

\* strobe set with A released, a read returning 0, A pressed, a read returning 1
C20_Witness ==
    /\ obs.log = <<[kind |-> "write", addr |-> 16406, val |-> 3],
                   [kind |-> "read", addr |-> 16406, val |-> 0],
                   [kind |-> "update", addr |-> 0, val |-> 0],
                   [kind |-> "read", addr |-> 16406, val |-> 1]>>
    /\ pads[1].strobe /\ pads[1].index = 0 /\ pads[1].buttons[1]
\* C21: after the strobe was written 1 and then 0, the k-th read of a
\* controller returns in bit 0 the state of button k (A, B, Select, Start, Up,
\* Down, Left, Right) for k = 1..8 and 1 for every later read, until the
\* strobe is written 1 again; the shift index is always in 0..8.
C21_ShiftOrder ==
    [][/\ \A i \in {1, 2} : pads'[i].index \in 0..8
       /\ (obs'.bus.kind = "read" /\ obs.shift.phase = "low"
             /\ obs'.shift.reads # obs.shift.reads) =>
              LET i == PadOf(obs'.bus.addr)
                  k == obs'.shift.reads[i]
              IN  obs'.bus.val % 2 = (IF k > 8 THEN 1
                                      ELSE IF pads[i].buttons[k] THEN 1 ELSE 0)]_vars

\* with Select and Right held, the strobe was written 1 and 0 and controller 1
\* was read nine times: the ninth read returned 1 and the index rests at 8
C21_Witness ==
    /\ obs.shift.phase = "low"
    /\ obs.shift.reads[1] = 9
    /\ obs.bus = [kind |-> "read", addr |-> 16406, val |-> 1]
    /\ pads[1].buttons = [k \in 1..8 |-> k \in {3, 8}]
    /\ pads[1].index = 8 /\ ~pads[1].strobe
\* the file byte that holds PRG byte i of the image NES(...) was given
FilePrg(i) == DataAt(obs.load.data, PrgStart(DataAt(obs.load.data, 6)) + i)

\* C22: with exactly one 16 KB PRG bank a CPU read at a in $8000..$BFFF and
\* the read at a + $4000 both return prg_rom[a - $8000]; with two banks a
\* read at a in $8000..$FFFF returns prg_rom[a - $8000].
C22_PrgMirror ==
    (obs.bus.kind = "read" /\ obs.bus.addr >= 32768
       /\ rom.prg_banks \in {1, 2} /\ rom.prg_len = 16384 * rom.prg_banks) =>
        obs.bus.val = FilePrg(IF rom.prg_banks = 1 /\ obs.bus.addr >= 49152
                              THEN obs.bus.addr - 49152
                              ELSE obs.bus.addr - 32768)

\* a one-bank image with a trainer: the read at $FFFD returned the byte that
\* the file holds for PRG offset $3FFD, the high byte of the reset vector
C22_Witness ==
    /\ obs.load.data = INesFile(Magic, 1, 1, 4, 0, 25088)
    /\ rom.prg_banks = 1 /\ rom.prg_len = 16384
    /\ obs.bus = [kind |-> "read", addr |-> 65533, val |-> 128]
    /\ DataAt(obs.load.data, 528 + 16381) = 128

\* addresses of the CPU bus that no device answers: $4000-$4015 but for the
\* DMA port, $4018-$7FFF
Unowned(addr) == (addr >= 16384 /\ addr < 16406 /\ addr # 16404) \/ (addr >= 16408 /\ addr < 32768)

\* C24: for every image the loader accepts and every address, a CPU read
\* returns a byte in 0..255 without faulting, and 0 at an address no device
\* owns.
C24_ReadsNeverFault ==
    /\ obs.bus.kind # "fault"
    /\ obs.bus.kind = "read" =>
          /\ obs.bus.val \in 0..255
          /\ Unowned(obs.bus.addr) => obs.bus.val = 0
\* C23: no CPU write to $8000..$FFFF changes a PRG ROM byte; with CHR ROM no
\* write through $2007 to $0000..$1FFF changes a CHR byte, and with CHR RAM
\* such a write stores its value at that address.
C23_RomReadOnly ==
    [][/\ rom'.prg_rom = rom.prg_rom /\ rom'.prg_fill = rom.prg_fill
       /\ rom.chr_banks > 0 => rom' = rom
       /\ (rom.chr_banks = 0 /\ obs'.ops # obs.ops /\ obs'.bus.kind = "write"
             /\ obs'.bus.addr = 8199 /\ ppu.vram_addr_v % 16384 < 8192) =>
              rom'.chr_mem = Put(rom.chr_mem, ppu.vram_addr_v % 16384, obs'.bus.val)
       /\ (obs'.ops # obs.ops
             /\ ~(obs'.bus.kind = "write" /\ obs'.bus.addr = 8199
                   /\ ppu.vram_addr_v % 16384 < 8192)) => rom' = rom]_vars

\* on the cartridge with CHR ROM $A5 was written through $2007 with v = $0010,
\* where the ROM holds $AA: the byte is still $AA
C23_Witness ==
    /\ rom = SampleRom
    /\ obs.bus = [kind |-> "write", addr |-> 8199, val |-> 165]
    /\ ppu.vram_addr_v = 17
    /\ Get(rom.chr_mem, 16) = 170
\* C30: a read of $2007 while v addresses non-palette memory (v mod $4000 <
\* $3F00) returns the byte the previous $2007 read loaded into the read buffer
\* and refills the buffer with the memory byte at v; a read while v addresses
\* palette memory returns the palette byte at v.
C30_BufferedRead ==
    [][(obs'.ops # obs.ops /\ obs'.bus.kind = "read" /\ obs'.bus.addr = 8199) =>
          IF ppu.vram_addr_v % 16384 < 16128
          THEN /\ obs.loaded # -1 => obs'.bus.val = obs.loaded
               /\ ppu'.data_buffer = ReadPpuMemory(M, ppu.vram_addr_v)
          ELSE obs'.bus.val = ReadPpuMemory(M, ppu.vram_addr_v)]_vars
\* C25: every CPU.step call returns at least 1 cycle (and at most 7), whether
\* it executes an instruction, meets an unknown opcode or burns a pending
\* cycle, so every pass of the loop of step_frame adds to the cycles of the
\* call; a step_frame call that was entered returns, and when it has returned
\* the cycles it accumulated are at least the frame target.
C25_StepFrameTerminates ==
    /\ [](obs.calls > 0 => obs.last.ret \in 1..max_op_cycles)
    /\ [][nes.at = "loop" => StepFrameAdvance]_vars
    /\ []((nes.at = "idle" /\ nes.frames > 0) =>
              nes.total_cpu_cycles_this_frame >= target_cycles)
    /\ (nes.at = "loop") ~> (nes.at = "idle")

\* step_frame has returned from a call in which the CPU met an unknown opcode
\* and burned pending cycles
C25_Witness ==
    /\ nes.at = "idle" /\ nes.frames = 1
    /\ obs.unknown_at # -1
    /\ obs.calls > obs.fetches /\ obs.fetches > 0
    /\ nes.total_cpu_cycles_this_frame \in target_cycles..(target_cycles + 6)
\* C26: after n calls of step_ppu from reset the scanline is in -1..260 and
\* the dot in 0..340, the dot is n mod 341 (it returns to 0 every 341 calls),
\* the scanline advances once per 341 calls and the frame counter is
\* n div 89342: it increments once every 341 * 262 calls.
C26_DotCounters ==
    /\ ppu.scanline \in -1..260
    /\ ppu.cycle \in 0..340
    /\ ppu.cycle = obs.ops % 341
    /\ ppu.scanline = ((obs.ops \div 341) % 262) - 1
    /\ ppu.frame_count = obs.ops \div 89342

\* 341 * 262 calls were made with rendering enabled: the PPU is back at the
\* first dot of the pre-render scanline, one frame later
C26_Witness ==
    /\ obs.ops = 89342
    /\ ppu.ppumask = 30
    /\ ppu.frame_count = 1 /\ ppu.scanline = -1 /\ ppu.cycle = 0
\* the opcodes of BPL, BMI, BVC, BVS, BCC, BCS, BNE, BEQ and the condition
\* each of them tests on the status register
BranchOpcodes == {16, 48, 80, 112, 144, 176, 208, 240}
BranchCondition(opcode, status) ==
    CASE opcode = 16 -> BitAnd(status, FlagN) = 0
      [] opcode = 48 -> BitAnd(status, FlagN) # 0
      [] opcode = 80 -> BitAnd(status, FlagV) = 0
      [] opcode = 112 -> BitAnd(status, FlagV) # 0
      [] opcode = 144 -> BitAnd(status, FlagC) = 0
      [] opcode = 176 -> BitAnd(status, FlagC) # 0
      [] opcode = 208 -> BitAnd(status, FlagZ) = 0
      [] opcode = 240 -> BitAnd(status, FlagZ) # 0

\* C27: the CPU.step call that executes a branch instruction returns 2 when
\* the branch is not taken, 3 when it is taken to a target in the page of the
\* following instruction and 4 when the target is in another page; the loop
\* pass adds that value to the cycles of the frame and runs 3 dots for each.
C27_BranchCycles ==
    [][(obs'.calls # obs.calls /\ obs'.last.fetched
          /\ obs'.last.opcode \in BranchOpcodes) =>
          LET next == (obs'.last.at + 2) % 65536
              off == Peek(M, (obs'.last.at + 1) % 65536)
              target == (next + (IF off >= 128 THEN off - 256 ELSE off)) % 65536
              taken == BranchCondition(obs'.last.opcode, cpu'.status)
              cycles == IF ~taken THEN 2 ELSE IF Page(target) = Page(next) THEN 3 ELSE 4
          IN  /\ obs'.last.ret = cycles
              /\ cpu'.pc = (IF taken THEN target ELSE next)
              /\ nes'.total_cpu_cycles_this_frame = nes.total_cpu_cycles_this_frame + cycles
              /\ PpuPos(ppu') - PpuPos(ppu) = 3 * cycles]_vars

\* BVS at $83FC was taken to $8400, in the next page, and returned 4
C27_Witness ==
    /\ rom = BranchRom
    /\ obs.last = [ret |-> 4, fetched |-> TRUE, unknown |-> FALSE, opcode |-> 112, at |-> 33788]
    /\ cpu.pc = 33792
    /\ BitAnd(cpu.status, FlagV) # 0

\* the CPU RAM cells other than those of the set cells are left as they were
RamKeptExcept(cells) ==
    \A i \in (DOMAIN cpu.ram \cup DOMAIN cpu'.ram) \ cells :
        Get(cpu'.ram, i) = Get(cpu.ram, i)

\* C28: a call of nmi() writes the high byte of pc at $0100+sp, the low byte
\* of pc one below and the status byte with B clear and U set one below
\* that (each index wrapping within page 1), touches no other RAM cell, sets
\* I in the status register, loads pc from the word at $FFFA, adds 7 to
\* cycles_remaining, lowers sp by 3 modulo 256 and leaves a, x and y alone.
C28_NmiPushes ==
    [][obs'.ints = obs.ints + 1 =>
         /\ Get(cpu'.ram, 256 + cpu.sp) = cpu.pc \div 256
         /\ Get(cpu'.ram, 256 + ((cpu.sp - 1) % 256)) = cpu.pc % 256
         /\ Get(cpu'.ram, 256 + ((cpu.sp - 2) % 256))
                = BitOr(BitClear(cpu.status, FlagB), FlagU)
         /\ RamKeptExcept({256 + ((cpu.sp - k) % 256) : k \in 0..2})
         /\ cpu'.status = BitOr(cpu.status, FlagI)
         /\ cpu'.pc = Peek(M, 65530) + 256 * Peek(M, 65531)
         /\ cpu'.cycles_remaining = cpu.cycles_remaining + 7
         /\ cpu'.sp = (cpu.sp - 3) % 256
         /\ cpu'.acc = cpu.acc /\ cpu'.x = cpu.x /\ cpu'.y = cpu.y]_vars

\* nmi() was called at sp = 1 while 3 cycles of PLP were still to burn: pc
\* $8007 went to $0101 and $0100, the status $E3 to $01FF, sp wrapped to $FE
C28_Witness ==
    /\ rom = StackRom(1, 195)
    /\ obs.ints = 1
    /\ cpu.sp = 254
    /\ cpu.pc = 32800
    /\ cpu.cycles_remaining = 10
    /\ Get(cpu.ram, 257) = 128
    /\ Get(cpu.ram, 256) = 7
    /\ Get(cpu.ram, 511) = 227
    /\ cpu.status = 231

\* the CPU.step call that takes the machine to the next state fetched opcode
Fetches(opcode) ==
    /\ obs'.calls = obs.calls + 1
    /\ obs'.last.fetched
    /\ obs'.last.opcode = opcode

\* the byte of page 1 the stack pointer value sp selects
StackAt(sp) == Get(cpu.ram, 256 + (sp % 256))

\* what PLP and RTI make of a popped status byte
Pulled(value) == BitOr(BitClear(BitClear(value, FlagB), FlagU), FlagU)

\* C29: sp is always in 0..255.  PHA and PHP write their byte at $0100+sp,
\* change no other RAM cell and leave sp one lower, $FF after $00; PLA and PLP
\* leave sp one higher, $00 after $FF, take the byte at $0100 + the new sp and
\* change no RAM cell; RTI pops three bytes the same way.  A PLA that
\* directly follows a PHA or PHP loads the byte that instruction pushed.
C29_StackWraps ==
    /\ [](cpu.sp \in 0..255)
    /\ [][/\ Fetches(72) =>
               /\ Get(cpu'.ram, 256 + cpu.sp) = cpu.acc
               /\ RamKeptExcept({256 + cpu.sp})
               /\ cpu'.sp = (cpu.sp - 1) % 256
          /\ Fetches(8) =>
               /\ Get(cpu'.ram, 256 + cpu.sp) = BitOr(cpu.status, FlagB + FlagU)
               /\ RamKeptExcept({256 + cpu.sp})
               /\ cpu'.sp = (cpu.sp - 1) % 256
          /\ Fetches(104) =>
               /\ cpu'.sp = (cpu.sp + 1) % 256
               /\ cpu'.acc = StackAt(cpu.sp + 1)
               /\ RamKeptExcept({})
               /\ Peek(M, cpu.pc - 1) = 72 => cpu'.acc = cpu.acc
               /\ Peek(M, cpu.pc - 1) = 8 =>
                      cpu'.acc = BitOr(cpu.status, FlagB + FlagU)
          /\ Fetches(40) =>
               /\ cpu'.sp = (cpu.sp + 1) % 256
               /\ cpu'.status = Pulled(StackAt(cpu.sp + 1))
               /\ RamKeptExcept({})
          /\ Fetches(64) =>
               /\ cpu'.sp = (cpu.sp + 3) % 256
               /\ cpu'.status = Pulled(StackAt(cpu.sp + 1))
               /\ cpu'.pc = StackAt(cpu.sp + 2) + 256 * StackAt(cpu.sp + 3)
               /\ RamKeptExcept({})]_vars

\* PHA ran at sp = $00 and PLP at sp = $FF: the byte $C3 is at $0100, page 2
\* is untouched, the status register holds it (U set) and sp is $00 again
C29_Witness ==
    /\ rom = StackRom(0, 195)
    /\ obs.ints = 0
    /\ obs.last.fetched
    /\ obs.last.opcode = 40
    /\ cpu.sp = 0
    /\ Get(cpu.ram, 256) = 195
    /\ Get(cpu.ram, 512) = 0
    /\ Get(cpu.ram, 511) = 0
    /\ cpu.status = 227

\* C31: every CPU.read or CPU.write of $2007 leaves v at
\* (v + 1) mod 2^15 when bit 2 of ppuctrl is clear and at (v + 32) mod 2^15
\* when it is set.
C31_VramStep ==
    [][(obs'.ops = obs.ops + 1 /\ obs'.bus.addr = 8199) =>
          ppu'.vram_addr_v
              = (ppu.vram_addr_v + (IF Bit(ppu.ppuctrl, 2) = 1 THEN 32 ELSE 1)) % 32768]_vars

\* a $2007 read at v = $7FFF with ppuctrl = 7 wrapped v to $001F
C31_Witness ==
    /\ obs.bus = [kind |-> "read", addr |-> 8199, val |-> obs.bus.val]
    /\ ppu.ppuctrl = 7
    /\ ppu.temp_vram_addr_t = 32767
    /\ ppu.vram_addr_v = 31

\* the host call that takes the machine to the next state writes PPU register
\* addr
RegWritten(addr) ==
    /\ obs'.ops = obs.ops + 1
    /\ obs'.bus.kind = "write"
    /\ obs'.bus.addr = addr

\* C32: a $2006 write made with the write toggle clear replaces the high byte
\* of t by hi & $3F, keeps the low byte of t, keeps v and sets the toggle; a
\* $2006 write lo that directly follows it leaves
\* v = t = ((hi & $3F) << 8) | lo and the toggle clear.
C32_AddrPair ==
    [][/\ (RegWritten(8198) /\ ~ppu.addr_latch_w) =>
            /\ ppu'.temp_vram_addr_t
                   = (obs'.bus.val % 64) * 256 + (ppu.temp_vram_addr_t % 256)
            /\ ppu'.vram_addr_v = ppu.vram_addr_v
            /\ ppu'.addr_latch_w
       /\ (/\ RegWritten(8198)
           /\ ppu.addr_latch_w
           /\ obs.bus.kind = "write"
           /\ obs.bus.addr = 8198) =>
            /\ ppu'.temp_vram_addr_t = (obs.bus.val % 64) * 256 + obs'.bus.val
            /\ ppu'.vram_addr_v = ppu'.temp_vram_addr_t
            /\ ~ppu'.addr_latch_w]_vars

\* after $2005 <- $FF twice (t = $73FF), $2006 <- $FF then $2006 <- $24 left
\* v = t = $3F24 with the toggle clear
C32_Witness ==
    /\ obs.ops = 4
    /\ obs.bus = [kind |-> "write", addr |-> 8198, val |-> 36]
    /\ ppu.fine_x_scroll = 7
    /\ ppu.vram_addr_v = 16164
    /\ ppu.temp_vram_addr_t = 16164
    /\ ~ppu.addr_latch_w

\* C33: a $2005 write x made with the write toggle clear sets bits 0-4 of t
\* to x >> 3 and fine_x to x & 7; the $2005 write y made with the toggle set
\* sets bits 5-9 of t to y >> 3 and bits 12-14 to y & 7; each leaves the other
\* bits of t, bits 10-11 among them, and v as they were.
C33_ScrollPair ==
    [][/\ (RegWritten(8197) /\ ~ppu.addr_latch_w) =>
            /\ ppu'.temp_vram_addr_t
                   = BitAnd(ppu.temp_vram_addr_t, 65504) + (obs'.bus.val \div 8)
            /\ ppu'.fine_x_scroll = obs'.bus.val % 8
            /\ ppu'.vram_addr_v = ppu.vram_addr_v
       /\ (RegWritten(8197) /\ ppu.addr_latch_w) =>
            /\ ppu'.temp_vram_addr_t
                   = BitAnd(ppu.temp_vram_addr_t, 35871)
                       + (obs'.bus.val \div 8) * 32 + (obs'.bus.val % 8) * 4096
            /\ ppu'.fine_x_scroll = ppu.fine_x_scroll
            /\ ppu'.vram_addr_v = ppu.vram_addr_v]_vars

\* the OAM entries whose Y puts the scanline target inside the sprite
Matching(target, height) ==
    {i \in 0..63 : Get(ppu.oam, 4 * i) <= target /\ target < Get(ppu.oam, 4 * i) + height}

\* C34: a call of _evaluate_sprites_for_scanline copies the first 8 OAM
\* entries with Y <= target < Y + height (height 16 if bit 5 of ppuctrl is
\* set, else 8), in order of OAM index, to secondary OAM, counts min(8,
\* matches) sprites, and turns on bit 5 of ppustatus exactly when there are 9
\* or more matching entries.
C34_SpriteSelection ==
    [][obs'.evals = obs.evals + 1 =>
         LET target == obs'.bus.addr
             height == IF Bit(ppu.ppuctrl, 5) = 1 THEN 16 ELSE 8
             found == Matching(target, height)
             Rank(i) == Cardinality({j \in found : j < i})
         IN  /\ ppu'.sprite_count_scanline
                   = (IF Cardinality(found) > 8 THEN 8 ELSE Cardinality(found))
             /\ \A i \in found :
                    Rank(i) < 8 =>
                        \A f \in 0..3 :
                            ppu'.secondary_oam[4 * Rank(i) + f] = Get(ppu.oam, 4 * i + f)
             /\ (Bit(ppu'.ppustatus, 5) = 1)
                   <=> (Bit(ppu.ppustatus, 5) = 1 \/ Cardinality(found) >= 9)]_vars

\* the pattern row that OAM entry 0 shows on scanline: [lo, hi, attributes, x]
SpriteZeroRow(scanline) ==
    SpriteRow([M EXCEPT !.ppu.secondary_oam = [k \in 0..31 |-> Get(ppu.oam, k % 4)]],
              scanline, IF Bit(ppu.ppuctrl, 5) = 1 THEN 16 ELSE 8, 0)

\* OAM entry 0 has an opaque pixel at column pixel_x of scanline
SpriteZeroOpaque(scanline, pixel_x) ==
    LET height == IF Bit(ppu.ppuctrl, 5) = 1 THEN 16 ELSE 8
        y == Get(ppu.oam, 0)
        x == Get(ppu.oam, 3)
    IN  /\ y <= scanline /\ scanline < y + height
        /\ x <= pixel_x /\ pixel_x < x + 8
        /\ \/ Bit(SpriteZeroRow(scanline).lo, 7 - (pixel_x - x)) = 1
           \/ Bit(SpriteZeroRow(scanline).hi, 7 - (pixel_x - x)) = 1

\* the background pixel the dot about to be processed shows is opaque
BackgroundOpaque ==
    LET mux == 32768 \div (2^ppu.fine_x_scroll)
    IN  \/ BitAnd(ppu.bg_shifter_pattern_lo, mux) > 0
        \/ BitAnd(ppu.bg_shifter_pattern_hi, mux) > 0

\* C35: when a step_ppu call turns bit 6 of ppustatus on, the dot it
\* processed is a pixel of a visible scanline other than pixel 255, bits 3
\* and 4 of ppumask are set, bits 1 and 2 as well if the pixel is one of the
\* first 8, the background pixel is opaque and OAM entry 0 has an opaque
\* pixel there.
C35_SpriteZeroHit ==
    [][(Bit(ppu.ppustatus, 6) = 0 /\ Bit(ppu'.ppustatus, 6) = 1) =>
          /\ 0 <= ppu.scanline /\ ppu.scanline < VISIBLE_SCANLINES
          /\ 1 <= ppu.cycle /\ ppu.cycle <= SCREEN_WIDTH
          /\ Bit(ppu.ppumask, 3) = 1 /\ Bit(ppu.ppumask, 4) = 1
          /\ ppu.cycle - 1 # 255
          /\ ppu.cycle - 1 < 8 => (Bit(ppu.ppumask, 1) = 1 /\ Bit(ppu.ppumask, 2) = 1)
          /\ BackgroundOpaque
          /\ SpriteZeroOpaque(ppu.scanline, ppu.cycle - 1)]_vars

\* the fields of a 15-bit VRAM address
CoarseX(v) == v % 32
CoarseY(v) == (v \div 32) % 32
NametableX(v) == (v \div 1024) % 2
NametableY(v) == (v \div 2048) % 2
FineY(v) == (v \div 4096) % 8

\* C36: a call of _increment_scroll_y made with rendering enabled adds 1 to
\* fine Y of v when fine Y < 7; when fine Y = 7 it sets fine Y to 0 and coarse
\* Y to 0 from 29 (inverting bit 11), to 0 from 31 (bit 11 kept) and to
\* coarse Y + 1 otherwise (bit 11 kept); coarse X, bit 10, t and fine x keep
\* their values.
C36_ScrollY ==
    [][(obs'.bus.kind = "scrolly" /\ obs'.evals = obs.evals + 1
        /\ BitAnd(ppu.ppumask, 24) # 0) =>
          LET v == ppu.vram_addr_v
              w == ppu'.vram_addr_v
              y == CoarseY(v)
          IN  /\ FineY(v) < 7 =>
                    /\ FineY(w) = FineY(v) + 1
                    /\ CoarseY(w) = y
                    /\ NametableY(w) = NametableY(v)
              /\ FineY(v) = 7 =>
                    /\ FineY(w) = 0
                    /\ CoarseY(w) = IF y \in {29, 31} THEN 0 ELSE y + 1
                    /\ NametableY(w) = IF y = 29 THEN 1 - NametableY(v)
                                       ELSE NametableY(v)
              /\ CoarseX(w) = CoarseX(v)
              /\ NametableX(w) = NametableX(v)
              /\ w < 32768
              /\ ppu'.fine_x_scroll = ppu.fine_x_scroll
              /\ ppu'.temp_vram_addr_t = ppu.temp_vram_addr_t]_vars

\* coarse Y 29 of the lower nametable row has wrapped to row 0 of the upper
\* one, fine x and the horizontal fields kept
C36_Witness ==
    /\ obs.bus.kind = "scrolly"
    /\ obs.evals = 1
    /\ ppu.ppumask = 8
    /\ ppu.temp_vram_addr_t = 32703
    /\ ppu.vram_addr_v = 1055
    /\ ppu.fine_x_scroll = 5

\* C37: the host's reset sets pc to the reset vector, sp to $FD, A, X and Y to
\* 0 and status to I | U; it clears PPUCTRL, PPUMASK, v, t, fine x, the write
\* toggle and the $2007 read buffer; work RAM, the nametable VRAM and OAM
\* hold what they held.
C37_SoftReset ==
    [][obs'.resets = obs.resets + 1 =>
          /\ cpu'.pc = ResetVector
          /\ cpu'.sp = 253
          /\ cpu'.acc = 0 /\ cpu'.x = 0 /\ cpu'.y = 0
          /\ cpu'.status = 36
          /\ ppu'.ppuctrl = 0 /\ ppu'.ppumask = 0
          /\ ppu'.vram_addr_v = 0 /\ ppu'.temp_vram_addr_t = 0
          /\ ppu'.fine_x_scroll = 0
          /\ ppu'.addr_latch_w = FALSE
          /\ ppu'.data_buffer = 0
          /\ \A a \in 0..2047 : Get(cpu'.ram, a) = Get(cpu.ram, a)
          /\ \A a \in 0..2047 : Get(ppu'.vram, a) = Get(ppu.vram, a)
          /\ \A a \in 0..255 : Get(ppu'.oam, a) = Get(ppu.oam, a)]_vars

\* the reset came after the host's writes, two instructions of the program
\* and a $2007 read: the stored bytes are in place, the registers are reset
C37_Witness ==
    /\ obs.bus.kind = "reset"
    /\ obs.fills = 1
    /\ obs.ops >= 3
    /\ Get(cpu.ram, 16) = 171 /\ Get(cpu.ram, 2047) = 205
    /\ Get(ppu.vram, 32) = 90
    /\ Get(ppu.oam, 5) = 119
    /\ cpu.pc = 49152 /\ cpu.sp = 253 /\ cpu.x = 0
    /\ ppu.ppuctrl = 0 /\ ppu.vram_addr_v = 0 /\ ppu.data_buffer = 0

\* the PPUCTRL write of value made with bit 7 of ppustatus set, bit 7 of
\* ppuctrl clear and no request pending raises a request
WouldRaise(value) ==
    WriteCtrl([M EXCEPT !.ppu.ppustatus = BitOr(@, 128), !.ppu.ppuctrl = 0,
                        !.ppu.nmi_output = FALSE], value).ppu.nmi_output

\* C38: while nmi_occurred_this_frame is set no write to $2000 turns
\* nmi_output on, nor would one made with bit 7 of ppustatus set and bit 7 of
\* ppuctrl going from 0 to 1; every step that turns nmi_output on is the one
\* that sets nmi_occurred_this_frame, which stays set until a run of
\* the PPU over pre-render dot 1.
C38_OneNmiPerFrame ==
    [][/\ (ppu.nmi_occurred_this_frame /\ obs'.bus.kind = "write" /\ obs'.bus.addr = 8192)
            => (ppu'.nmi_output = ppu.nmi_output /\ ppu'.nmi_occurred_this_frame)
       /\ ppu.nmi_occurred_this_frame => \A value \in {128, 255} : ~WouldRaise(value)
       /\ (~ppu.nmi_output /\ ppu'.nmi_output)
            => (~ppu.nmi_occurred_this_frame /\ ppu'.nmi_occurred_this_frame)
       /\ (ppu.nmi_occurred_this_frame /\ ~ppu'.nmi_occurred_this_frame)
            => /\ obs'.bus = NoBus
               /\ \/ ppu.scanline = -1 /\ ppu.cycle <= 1
                  \/ ppu.scanline = SCANLINES_PER_FRAME - 2]_vars

\* in the second frame, after the VBlank point and after the request of the
\* first frame was taken, the host's first register access turned bit 7 of
\* PPUCTRL on and no request is pending
C38_Witness ==
    /\ obs.bus = [kind |-> "write", addr |-> 8192, val |-> 128]
    /\ obs.ops = 1
    /\ obs.fills = 2
    /\ ppu.scanline = 241 /\ ppu.cycle = 2
    /\ ppu.ppuctrl = 128
    /\ ppu.nmi_occurred_this_frame
    /\ ~ppu.nmi_output

\* C39: a step_ppu call made with bits 3 and 4 of ppumask clear leaves v, t
\* and fine x as they are, and leaves what a sprite evaluation writes
\* (secondary OAM, the sprite count, the overflow bit, the sprite-zero marker)
\* as it is; in such a run v, t and fine x change only in the host's writes
\* to $2000, $2005, $2006 and $2007.
C39_IdleScroll ==
    [][BitAnd(ppu.ppumask, 24) = 0 /\ obs'.fills = obs.fills =>
          /\ obs'.ops = obs.ops + 1 =>
                /\ ppu'.vram_addr_v = ppu.vram_addr_v
                /\ ppu'.temp_vram_addr_t = ppu.temp_vram_addr_t
                /\ ppu'.fine_x_scroll = ppu.fine_x_scroll
                /\ ppu'.secondary_oam = ppu.secondary_oam
                /\ ppu'.sprite_count_scanline = ppu.sprite_count_scanline
                /\ ppu'.sprite_zero_hit_possible = ppu.sprite_zero_hit_possible
                /\ Bit(ppu'.ppustatus, 5) <= Bit(ppu.ppustatus, 5)
          /\ (\/ ppu'.vram_addr_v # ppu.vram_addr_v
              \/ ppu'.temp_vram_addr_t # ppu.temp_vram_addr_t
              \/ ppu'.fine_x_scroll # ppu.fine_x_scroll) =>
                obs'.evals = obs.evals + 1]_vars

\* a whole frame and the evaluation dot of the next pre-render line have
\* gone by with sprites in range and the scroll registers hold what the host
\* wrote
C39_Witness ==
    /\ obs.fills = 1
    /\ obs.evals = 0
    /\ obs.ops = 89342 + 258
    /\ ppu.frame_count = 1
    /\ ppu.scanline = -1 /\ ppu.cycle = 258
    /\ ppu.ppumask = 231
    /\ ppu.vram_addr_v = 9029 /\ ppu.temp_vram_addr_t = 9029
    /\ ppu.fine_x_scroll = 5
    /\ Get(ppu.oam, 3) = 16
    /\ ppu.sprite_count_scanline = 0

\* C40: a JSR fetched at p writes the high byte of p + 2 at $0100+sp and the
\* low byte at $0100+((sp - 1) mod 256), changes no other RAM cell, leaves sp
\* two lower (mod 256) and pc at the word that follows the opcode; the RTS
\* fetched with sp at the value that JSR left leaves pc at p + 3 and sp at
\* the value the JSR found.
C40_JsrRts ==
    [][/\ Fetches(32) =>
            LET p == obs'.last.at
            IN  /\ p = cpu.pc
                /\ Get(cpu'.ram, 256 + cpu.sp) = ((p + 2) \div 256) % 256
                /\ Get(cpu'.ram, 256 + ((cpu.sp - 1) % 256)) = (p + 2) % 256
                /\ RamKeptExcept({256 + cpu.sp, 256 + ((cpu.sp - 1) % 256)})
                /\ cpu'.sp = (cpu.sp - 2) % 256
                /\ cpu'.pc = Peek(M, p + 1) + 256 * Peek(M, p + 2)
       /\ (Fetches(96) /\ obs.log # <<>>
           /\ cpu.sp = (obs.log[Len(obs.log)].sp - 2) % 256) =>
            /\ cpu'.pc = (obs.log[Len(obs.log)].p + 3) % 65536
            /\ cpu'.sp = obs.log[Len(obs.log)].sp
            /\ RamKeptExcept({})]_vars

\* the JSR whose last byte lies in the next page, fetched with sp = 0, has
\* returned after a nested call: both have wrapped the stack pointer
C40_Witness ==
    /\ obs.last.fetched /\ obs.last.opcode = 96
    /\ obs.log = <<>>
    /\ cpu.pc = 33025
    /\ cpu.sp = 0
    /\ Get(cpu.ram, 256) = 129
    /\ Get(cpu.ram, 511) = 0
    /\ Get(cpu.ram, 509) = 144 /\ Get(cpu.ram, 508) = 3
====
